---- MODULE Spec2Model ----
(***************************************************************************)
(* Session orchestration core of the automated engagement scripts.         *)
(*                                                                         *)
(* The bounded campaign (MAX_CLICKS budget, all URLs of a cycle processed  *)
(* in parallel, batches of concurrentTabsPerUrl workers per URL) is the    *)
(* script in src/unnamed/part_000; the unbounded campaign (one window per  *)
(* click, one click per URL and batch, for ever) is src/automated.js.      *)
(* Every action is one job of the JavaScript event loop: the code that     *)
(* runs between the completion of an awaited operation and the next await. *)
(* The awaits of one session that touch nothing shared (launch, newPage,   *)
(* goto, the delays and the page interaction; page.close, browser.close)   *)
(* are taken together.                                                     *)
(***************************************************************************)
EXTENDS Integers, Sequences, FiniteSets, TLC

(* ---- bounds of the model ---------------------------------------------- *)
MaxUrls     == 3   \* length of the urls list
MaxConc     == 2   \* concurrentTabsPerUrl
MaxInFlight == 2   \* urls * concurrentTabsPerUrl explored
MaxTabs     == 2   \* numberOfTabsPerUrl
MaxBudget   == 2   \* MAX_CLICKS
MaxClock    == 2   \* clock readings, in ticks
MaxFaults   == 1   \* operations of the environment that fail in one run
MaxSessions == 51  \* sessions started by the unbounded campaign
RandomSteps == 82  \* values Math.random() takes: one for every record of the longest table
MaxElements == 2   \* elements a group of selectors finds on a page
FineSteps == 10000 \* values Math.random() takes where a range of thousands is drawn from
TicksPerSecond == 2 \* clock ticks in one second of the ISO timestamp

VARIABLES
  cfg,                \* the campaign: variant, urls, tabs, concurrency, MAX_CLICKS
  globalClickCounter, \* let globalClickCounter
  clickReportData,    \* let clickReportData
  dataCsv,            \* the file data.csv
  reports,            \* the engagement-report-*.csv files written, in write order
  now,                \* the last reading of the system clock, in ticks
  orch,               \* runEnhancedAutomation: position, cycleCount (batchCount), urlIndex
  tasks,              \* one openEnhancedTabs call per url: position, i, completedTabs, activeConnections
  workers,            \* createTabWorker calls of the current cycle, by url and tabIndex
  dispatchLog,        \* the createTabWorker calls made so far: <<cycle, url, tabIndex>>
  csvErrors,          \* number of "[CSV_ERROR] Failed to update CSV" lines logged
  faults,             \* number of awaited operations that have failed so far
  openBrowsers,       \* browsers launched by puppeteer.launch and not closed
  profile,            \* the value last returned by a generator of the browsing profile
  interaction,        \* the interaction block of one session: the page and the clicks tried
  vm,                 \* demo-vm-system.js: click, vmClickCounter, currentVmId, what was logged
  pacing              \* the delays taken: breaks and snapshots of incrementClickCounter,
                      \* per url the delay elapsed since its last worker settled, and
                      \* per createTabWorker / createClickWorker call the delay before it

vars == <<cfg, globalClickCounter, clickReportData, dataCsv, reports, now,
          orch, tasks, workers, dispatchLog, csvErrors, faults, openBrowsers, pacing, profile,
          interaction, vm>>

Urls == 1 .. cfg.urls
Tabs == 0 .. (cfg.numberOfTabsPerUrl - 1)

(* ---- pure pieces of the code ------------------------------------------ *)

\* a shouldContinue that is false from the start
shouldContinueNever(counter, max) == FALSE

\* a shouldContinue that lets the counter reach MAX_CLICKS + 1
shouldContinueInclusive(counter, max) == counter <= max

\* shouldContinue() of the bounded campaign: globalClickCounter < MAX_CLICKS
shouldContinue(counter, max) == counter < max

\* click data with tabIndex in the place of tabIndex + 1
ClickDataTabIndex(url, tabIndex, cycle) ==
  [tabNumber |-> tabIndex, url |-> url, sessionStartTime |-> cycle]

\* createTabWorker: clickData = { tabNumber: tabIndex + 1, url: url,
\* sessionStartTime: ..., ... }; the start time of the session is kept as the
\* cycle in which the session was started
ClickData(url, tabIndex, cycle) ==
  [tabNumber |-> tabIndex + 1, url |-> url, sessionStartTime |-> cycle]

\* a record numbered with the counter as it was before the increment
RecordWithMetaStale(counter, clickData) ==
  [clickNumber |-> counter - 1, tabNumber |-> clickData.tabNumber,
   url |-> clickData.url, sessionStartTime |-> clickData.sessionStartTime]

\* addClickRecord: recordWithMeta = { clickNumber: globalClickCounter, ...clickData }
RecordWithMeta(counter, clickData) ==
  [clickNumber |-> counter, tabNumber |-> clickData.tabNumber, url |-> clickData.url,
   sessionStartTime |-> clickData.sessionStartTime]

\* updateCSVFile: the text handed to appendFile, as a sequence of lines: the
\* header line when the file was not there, and the row of the record
HeaderLine == [kind |-> "header", clickNumber |-> 0]
RowLine(record) == [kind |-> "row", clickNumber |-> record.clickNumber]

\* content that lacks the row of the record that creates the file
CsvContentHeaderOnly(fileExists, record) ==
  IF fileExists THEN << RowLine(record) >>
                ELSE << HeaderLine >>

CsvContent(fileExists, record) ==
  IF fileExists THEN << RowLine(record) >>
                ELSE << HeaderLine, RowLine(record) >>

\* generateCSVReport: new Date().toISOString().replace(/[:.]/g,'-').slice(0,19)
\* keeps the date and time down to the second and drops the milliseconds
ReportFileName(t) == t \div TicksPerSecond

\* a report that leaves out the newest record
ReportContentButLast(data) == [i \in 1 .. (Len(data) - 1) |-> data[i].clickNumber]

\* generateCSVReport: one header line and one line per record of clickReportData
ReportContent(data) == [i \in 1 .. Len(data) |-> data[i].clickNumber]

\* close() without the catch: a rejection is not swallowed
SwallowCloseMissing(ok) == ok

\* page.close().catch(() => {}) and browser.close().catch(() => {})
SwallowClose(ok) == TRUE

IdleWorker ==
  [pc |-> "idle", browser |-> "null", page |-> "null", clickNumber |-> 0,
   fileExists |-> FALSE, failedAt |-> "none", outcome |-> "none", delay |-> "none",
   logged |-> 0,
   settled |-> "pending", repName |-> -1, repContent |-> << >>]

\* createTabWorker up to its first await: activeConnections++, puppeteer.launch
LaunchingWorker == [IdleWorker EXCEPT !.pc = "session"]

IdleTask ==
  [pc |-> "idle", i |-> 0, batch |-> << >>, completedTabs |-> 0, activeConnections |-> 0]

InFlight(w) == w.pc \notin {"idle", "settled"}

InFlightCount ==
  Cardinality({ut \in Urls \X Tabs : InFlight(workers[ut[1]][ut[2]])})

RECURSIVE SumCompleted(_)
SumCompleted(u) == IF u = 0 THEN 0 ELSE tasks[u].completedTabs + SumCompleted(u - 1)

(* ---- initial state ----------------------------------------------------- *)

\* the configurations explored
Configs ==
  [variant : {"bounded"}, urls : 1 .. MaxUrls, concurrentTabsPerUrl : 1 .. MaxConc,
   numberOfTabsPerUrl : 1 .. MaxTabs, MAX_CLICKS : 1 .. MaxBudget]

\* the unbounded campaign: openEnhancedTabs(url, 1) for one url after the
\* other, one worker at a time, no budget
UnboundedConfigs ==
  [variant : {"unbounded"}, urls : 1 .. MaxUrls, concurrentTabsPerUrl : {1},
   numberOfTabsPerUrl : {1}, MAX_CLICKS : {0}]

NoProfile ==
  [kind |-> "none", city |-> "none", latitude |-> 0, longitude |-> 0,
   type |-> "none", downlink |-> 0, number |-> 0]

\* no interaction block has run
NoInteraction == [variant |-> "none", page |-> << >>, attempts |-> << >>]

\* demo-vm-system.js before its loop: let vmClickCounter = 0; let currentVmId = 1
NoVm == [click |-> 0, vmClickCounter |-> 0, currentVmId |-> 1, log |-> << >>]

Start ==
  /\ cfg \in Configs \cup UnboundedConfigs
  /\ globalClickCounter = 0
  /\ clickReportData = << >>
  /\ dataCsv = [exists |-> FALSE, rows |-> << >>]
  /\ reports = << >>
  /\ now = 0
  /\ orch = [pc |-> "init", cycleCount |-> 1, cycleCompleted |-> 0, urlIndex |-> 0,
             repName |-> -1, repContent |-> << >>]
  /\ tasks = [u \in Urls |-> IdleTask]
  /\ workers = [u \in Urls |-> [t \in Tabs |-> IdleWorker]]
  /\ dispatchLog = << >>
  /\ csvErrors = 0
  /\ faults = 0
  /\ openBrowsers = 0
  /\ profile = NoProfile
  /\ interaction = NoInteraction
  /\ vm = NoVm
  /\ pacing = [breaks |-> 0, snapshots |-> 0, last |-> [u \in Urls |-> "none"], log |-> << >>]

Init ==
  /\ Start
  /\ cfg.urls * cfg.concurrentTabsPerUrl <= MaxInFlight \/ cfg.variant = "unbounded"

(* ---- openEnhancedTabs: the dispatch loop ------------------------------- *)

\* a batch that ends only with the last tab
BatchEndsLastOnly(i, maxConnections, numberOfTabs) == i = numberOfTabs - 1

\* (i + 1) % maxConnections === 0 || i === numberOfTabs - 1
BatchEnds(i, maxConnections, numberOfTabs) ==
  (i + 1) % maxConnections = 0 \/ i = numberOfTabs - 1

\* the loop without its shouldContinue test
RECURSIVE DispatchLoopUnchecked(_, _)
DispatchLoopUnchecked(i, started) ==
  IF i >= cfg.numberOfTabsPerUrl
    THEN [pc |-> "returned", i |-> i, started |-> started]
  ELSE IF BatchEnds(i, cfg.concurrentTabsPerUrl, cfg.numberOfTabsPerUrl)
    THEN [pc |-> "awaitBatch", i |-> i, started |-> Append(started, i)]
  ELSE DispatchLoopUnchecked(i + 1, Append(started, i))

\* The for loop of openEnhancedTabs from index i up to its next await or its
\* exit; started are the indices handed to createTabWorker on the way.
RECURSIVE DispatchLoop(_, _)
DispatchLoop(i, started) ==
  IF i >= cfg.numberOfTabsPerUrl
    THEN [pc |-> "returned", i |-> i, started |-> started]
  ELSE IF ~shouldContinue(globalClickCounter, cfg.MAX_CLICKS)
    THEN [pc |-> "returned", i |-> i, started |-> started]
  ELSE IF BatchEnds(i, cfg.concurrentTabsPerUrl, cfg.numberOfTabsPerUrl)
    THEN [pc |-> "awaitBatch", i |-> i, started |-> Append(started, i)]
  ELSE DispatchLoop(i + 1, Append(started, i))

InSeq(x, s) == \E k \in 1 .. Len(s) : s[k] = x

\* the task of url u after the loop ran from index i
TaskAfterLoop(task, i) ==
  LET r == DispatchLoop(i, << >>) IN
  [task EXCEPT !.pc = r.pc, !.i = r.i, !.batch = r.started,
               !.activeConnections = @ + Len(r.started)]

WorkersAfterLoop(ws, i) ==
  LET r == DispatchLoop(i, << >>) IN
  [t \in Tabs |-> IF InSeq(t, r.started) THEN LaunchingWorker ELSE ws[t]]

LogEntries(cycle, u, i) ==
  LET r == DispatchLoop(i, << >>) IN
  [k \in 1 .. Len(r.started) |-> <<cycle, u, r.started[k]>>]

\* the urls taken from the last to the first
RECURSIVE CycleLogEntriesReversed(_, _)
CycleLogEntriesReversed(cycle, u) ==
  IF u = 0 THEN << >> ELSE LogEntries(cycle, u, 0) \o CycleLogEntriesReversed(cycle, u - 1)

\* urls.map(async (url, index) => openEnhancedTabs(...)): the calls made for
\* url 1 .. u, each run up to its first await, in list order
RECURSIVE CycleLogEntries(_, _)
CycleLogEntries(cycle, u) ==
  IF u = 0 THEN << >> ELSE CycleLogEntries(cycle, u - 1) \o LogEntries(cycle, u, 0)

(* ---- the environment ---------------------------------------------------- *)

\* an awaited operation of the environment (puppeteer, fs) resolves (ok) or
\* rejects; at most MaxFaults of them reject in one run
Faults(n) == faults + n <= MaxFaults /\ faults' = faults + n

Fault(ok) == Faults(IF ok THEN 0 ELSE 1)

(* ---- generateCSVReport ------------------------------------------------- *)

\* generateCSVReport up to its await of writeFile: reads the clock, builds the
\* file name and the content from clickReportData
ReportCall(t) ==
  [name |-> ReportFileName(t), content |-> ReportContent(clickReportData)]

(* ---- the delays between dispatches -------------------------------------- *)

\* The delay that has elapsed before a dispatch for url u made by the cycle
\* loop: none before the first cycle; afterwards the fixed 2000 ms between
\* cycles, which follows the random delay of openEnhancedTabs when that one
\* was taken after the url's last batch.
CyclePace(first, entries) ==
  [k \in 1 .. Len(entries) |->
     IF first THEN "first"
     ELSE IF pacing.last[entries[k][2]] = "random" THEN "random" ELSE "fixed"]

\* n dispatches made with no delay before them
NoPace(n) == [k \in 1 .. n |-> "none"]

\* n dispatches made right after await delay(Math.random() * 2000 + 1000)
RandomPace(n) == [k \in 1 .. n |-> "random"]

(* ---- runEnhancedAutomation --------------------------------------------- *)

\* the code after the while loop, up to the await of generateCSVReport
FinishCampaign(o) ==
  IF Len(clickReportData) > 0
    THEN \E t \in now .. MaxClock :
           /\ now' = t
           /\ orch' = [o EXCEPT !.pc = "finalReport",
                                !.repName = ReportCall(t).name,
                                !.repContent = ReportCall(t).content]
    ELSE /\ orch' = [o EXCEPT !.pc = "done"]
         /\ now' = now

\* while (shouldContinue()) { urls.map(async ...) ; await Promise.allSettled
\* entered at the start and after the delay between cycles
RunCycle ==
  /\ cfg.variant = "bounded"
  /\ orch.pc \in {"init", "cycleDelay"}
  /\ IF shouldContinue(globalClickCounter, cfg.MAX_CLICKS)
       THEN /\ tasks' = [u \in Urls |->
                           IF ~shouldContinue(globalClickCounter, cfg.MAX_CLICKS)
                             THEN [IdleTask EXCEPT !.pc = "skipped"]
                             ELSE TaskAfterLoop(IdleTask, 0)]
            /\ workers' = [u \in Urls |->
                           IF ~shouldContinue(globalClickCounter, cfg.MAX_CLICKS)
                             THEN [t \in Tabs |-> IdleWorker]
                             ELSE WorkersAfterLoop([t \in Tabs |-> IdleWorker], 0)]
            /\ dispatchLog' = dispatchLog \o CycleLogEntries(orch.cycleCount, cfg.urls)
            /\ pacing' = [pacing EXCEPT
                             !.log = @ \o CyclePace(orch.pc = "init",
                                                    CycleLogEntries(orch.cycleCount, cfg.urls)),
                             !.last = [u \in Urls |-> "none"]]
            /\ orch' = [orch EXCEPT !.pc = "awaitCycle"]
            /\ now' = now
       ELSE /\ FinishCampaign(orch)
            /\ UNCHANGED <<tasks, workers, dispatchLog, pacing>>
  /\ UNCHANGED <<cfg, profile, interaction, vm, openBrowsers, globalClickCounter, clickReportData, dataCsv, reports, csvErrors, faults>>

\* the code after await Promise.allSettled(urlPromises)
CycleComplete ==
  /\ orch.pc = "awaitCycle"
  /\ \A u \in Urls : tasks[u].pc \in {"returned", "skipped"}
  /\ LET o == [orch EXCEPT !.cycleCompleted = SumCompleted(cfg.urls)] IN
     IF ~shouldContinue(globalClickCounter, cfg.MAX_CLICKS)
       THEN FinishCampaign(o)
       ELSE /\ orch' = [o EXCEPT !.cycleCount = @ + 1, !.pc = "cycleDelay"]
            /\ now' = now
  /\ UNCHANGED <<cfg, profile, interaction, vm, pacing, openBrowsers, globalClickCounter, clickReportData, dataCsv, reports,
                 tasks, workers, dispatchLog, csvErrors, faults>>

\* the final generateCSVReport: writeFile completes or fails
FinalReportDone(ok) ==
  /\ orch.pc = "finalReport"
  /\ Fault(ok)
  /\ reports' = IF ok THEN Append(reports, [name |-> orch.repName,
                                            content |-> orch.repContent])
                      ELSE reports
  /\ orch' = [orch EXCEPT !.pc = "done"]
  /\ UNCHANGED <<cfg, profile, interaction, vm, pacing, openBrowsers, globalClickCounter, clickReportData, dataCsv, now,
                 tasks, workers, dispatchLog, csvErrors>>

(* ---- openEnhancedTabs after its awaits --------------------------------- *)

\* a wait that ends with the first worker of the batch that settles
AnySettled(u) ==
  \E k \in 1 .. Len(tasks[u].batch) : workers[u][tasks[u].batch[k]].pc = "settled"

\* Promise.allSettled(workers.splice(0)) is resolved: every promise of the
\* batch is fulfilled or rejected
AllSettled(u) ==
  \A k \in 1 .. Len(tasks[u].batch) : workers[u][tasks[u].batch[k]].pc = "settled"

\* after await Promise.allSettled(workers.splice(0)): the settled promises of
\* the batch are dropped
BatchSettled(u) ==
  /\ tasks[u].pc = "awaitBatch"
  /\ AllSettled(u)
  /\ workers' = [workers EXCEPT ![u] =
                   [t \in Tabs |-> IF InSeq(t, tasks[u].batch) THEN IdleWorker ELSE @[t]]]
  /\ tasks' = [tasks EXCEPT ![u] =
                 IF ~shouldContinue(globalClickCounter, cfg.MAX_CLICKS)
                   THEN [@ EXCEPT !.pc = "returned", !.batch = << >>]
                   ELSE [@ EXCEPT !.pc = "delay", !.batch = << >>]]
  /\ pacing' = [pacing EXCEPT !.last[u] = "none"]
  /\ UNCHANGED <<cfg, profile, interaction, vm, openBrowsers, globalClickCounter, clickReportData, dataCsv, reports, now,
                 orch, dispatchLog, csvErrors, faults>>

\* after await delay(Math.random() * 2000 + 1000): i++ and the loop goes on
BatchDelayDone(u) ==
  /\ tasks[u].pc = "delay"
  /\ tasks' = [tasks EXCEPT ![u] = TaskAfterLoop(@, @.i + 1)]
  /\ workers' = [workers EXCEPT ![u] = WorkersAfterLoop(@, tasks[u].i + 1)]
  /\ dispatchLog' = dispatchLog \o LogEntries(orch.cycleCount, u, tasks[u].i + 1)
  /\ pacing' = [pacing EXCEPT
                   !.last[u] = "random",
                   !.log = @ \o RandomPace(Len(LogEntries(orch.cycleCount, u, tasks[u].i + 1)))]
  /\ UNCHANGED <<cfg, profile, interaction, vm, openBrowsers, globalClickCounter, clickReportData, dataCsv, reports, now,
                 orch, csvErrors, faults>>

(* ---- createTabWorker --------------------------------------------------- *)

\* how the awaits of a session, from puppeteer.launch to the end of the
\* interaction block, can end
SessionFailures == {"launch", "newPage", "goto", "page"}
SessionOutcomes == {"clicked", "notFound", "interactionError"}

\* the finally block up to its first await: activeConnections-- is done by
\* the action; with a page or a browser to close the worker awaits close(),
\* else it settles
Finally(w) ==
  IF w.page = "open" \/ w.browser = "open"
    THEN [w EXCEPT !.pc = "closing"]
    ELSE [w EXCEPT !.pc = "settled", !.settled = "fulfilled"]

\* catch (error) { log } finally { ... } after a failure at the named step
CatchFinally(w, step) == Finally([w EXCEPT !.failedAt = step])

\* the handles a session holds when it fails at the named step, or gets through
HandlesAt(w, step) ==
  [w EXCEPT !.browser = IF step = "launch" THEN "null" ELSE "open",
            !.page = IF step \in {"launch", "newPage"} THEN "null" ELSE "open"]

\* browser = await puppeteer.launch(...): a session that gets past the launch
\* has opened one browser
Launched(step) == IF step = "launch" THEN 0 ELSE 1

WorkerStep(u, t, w, completed) ==
  /\ workers' = [workers EXCEPT ![u][t] = w]
  /\ tasks' = [tasks EXCEPT ![u].completedTabs = @ + completed,
                            ![u].activeConnections =
                               IF /\ cfg.variant = "bounded"
                                  /\ w.pc \in {"closing", "settled"}
                                  /\ workers[u][t].pc # "closing"
                                 THEN @ - 1 ELSE @]

\* a record put in front of the buffer, which moves the records it holds
PushFront(data, record) == << record >> \o data

\* addClickRecord: clickReportData.push(recordWithMeta)
Push(data, record) == Append(data, record)

\* an interaction block without its catch: an exception of the interaction
\* leaves the block and ends the session in the catch of the worker
EscapesUncaught(outcome) == outcome = "interactionError"

\* try { ...interaction... } catch (error) { log; await delay(...) }: no
\* outcome of the interaction block leaves it as an exception
Escapes(outcome) == FALSE

\* if (submitted) { wait for the response } else { await delay(fallback) },
\* and the fallback delay in the catch of the interaction block
InteractionDelay(outcome) == IF outcome = "clicked" THEN "response" ELSE "fallback"

\* the worker with the outcome of its interaction block and the delay taken
AfterInteraction(w, outcome) ==
  [w EXCEPT !.outcome = outcome, !.delay = InteractionDelay(outcome)]

\* addClickRecord after await updateCSVFile(recordWithMeta):
\* console.log(`[CSV_UPDATE] Record ${globalClickCounter} added to data.csv`),
\* or the [CSV_ERROR] line, which names no record (0)
RecordAdded(counter, ok) == IF ok THEN counter ELSE 0

\* submitted and the other locals of the interaction block are gone when
\* incrementClickCounter goes on after its first await, which then logs the
\* record it added
InteractionOver(w, ok) ==
  [w EXCEPT !.outcome = "none", !.delay = "none",
            !.logged = RecordAdded(globalClickCounter, ok)]

\* incrementClickCounter up to its first await: globalClickCounter++, then
\* addClickRecord pushes the record, then updateCSVFile tests existsSync and
\* calls appendFile
IncrementAndAppend(u, t, w) ==
  LET counter == globalClickCounter + 1
      record  == RecordWithMeta(counter, ClickData(u, t, orch.cycleCount))
  IN /\ globalClickCounter' = counter
     /\ clickReportData' = Push(clickReportData, record)
     /\ WorkerStep(u, t, [w EXCEPT !.pc = "append",
                                   !.clickNumber = record.clickNumber,
                                   !.fileExists = dataCsv.exists], 0)

\* The session gets through launch, newPage, goto, the settle delay, title(),
\* url() and the interaction block (whose exceptions the inner try catches);
\* after the response wait or the fallback delay the click data is built and
\* incrementClickCounter is called.  These awaits touch no shared state.
SessionDone(u, t, outcome) ==
  /\ cfg.variant = "bounded"
  /\ workers[u][t].pc = "session"
  /\ IF Escapes(outcome)
       THEN /\ WorkerStep(u, t, CatchFinally(HandlesAt(workers[u][t], "none"), "interaction"), 0)
            /\ UNCHANGED <<globalClickCounter, clickReportData>>
       ELSE IncrementAndAppend(u, t, AfterInteraction(HandlesAt(workers[u][t], "none"), outcome))
  /\ openBrowsers' = openBrowsers + Launched("none")
  /\ UNCHANGED <<cfg, profile, interaction, vm, pacing, dataCsv, reports, now, orch, dispatchLog, csvErrors, faults>>

\* puppeteer.launch, browser.newPage, page.goto (timeout) or page.title/url
\* rejects: catch logs the error, finally releases what was acquired
SessionFailed(u, t, step) ==
  /\ cfg.variant = "bounded"
  /\ workers[u][t].pc = "session"
  /\ Fault(FALSE)
  /\ WorkerStep(u, t, CatchFinally(HandlesAt(workers[u][t], step), step), 0)
  /\ openBrowsers' = openBrowsers + Launched(step)
  /\ UNCHANGED <<cfg, profile, interaction, vm, pacing, globalClickCounter, clickReportData, dataCsv, reports, now,
                 orch, dispatchLog, csvErrors>>

\* await fs.promises.appendFile resolves or rejects; addClickRecord logs,
\* incrementClickCounter tests the counter: at the budget it calls
\* generateCSVReport, else it returns true, completedTabs++ and finally
AppendDone(u, t, ok) ==
  /\ cfg.variant = "bounded"
  /\ workers[u][t].pc = "append"
  /\ Fault(ok)
  /\ dataCsv' = IF ok
                  THEN [exists |-> TRUE,
                        rows |-> dataCsv.rows \o
                                 CsvContent(workers[u][t].fileExists,
                                            [clickNumber |-> workers[u][t].clickNumber])]
                  ELSE dataCsv
  /\ csvErrors' = IF ok THEN csvErrors ELSE csvErrors + 1
  /\ IF globalClickCounter >= cfg.MAX_CLICKS
       THEN \E tm \in now .. MaxClock :
              /\ now' = tm
              /\ WorkerStep(u, t, [InteractionOver(workers[u][t], ok) EXCEPT !.pc = "report",
                                     !.repName = ReportCall(tm).name,
                                     !.repContent = ReportCall(tm).content], 0)
       ELSE /\ now' = now
            /\ WorkerStep(u, t, Finally(InteractionOver(workers[u][t], ok)), 1)
  /\ UNCHANGED <<cfg, profile, interaction, vm, pacing, openBrowsers, globalClickCounter, clickReportData, reports, orch, dispatchLog>>

\* await fs.promises.writeFile resolves (return false, throw MAX_CLICKS_REACHED)
\* or rejects (rethrown): both end in catch and finally
ReportDone(u, t, ok) ==
  /\ cfg.variant = "bounded"
  /\ workers[u][t].pc = "report"
  /\ Fault(ok)
  /\ reports' = IF ok THEN Append(reports, [name |-> workers[u][t].repName,
                                            content |-> workers[u][t].repContent])
                      ELSE reports
  /\ WorkerStep(u, t, CatchFinally(workers[u][t],
                                   IF ok THEN "MAX_CLICKS_REACHED" ELSE "report"), 0)
  /\ UNCHANGED <<cfg, profile, interaction, vm, pacing, openBrowsers, globalClickCounter, clickReportData, dataCsv, now,
                 orch, dispatchLog, csvErrors>>

\* await page.close().catch(() => {}) and await browser.close().catch(() => {})
\* are over, each resolved or rejected; a rejection that is not swallowed
\* leaves the finally block and rejects the worker's promise
ClosingDone(u, t, pageOk, browserOk) ==
  /\ workers[u][t].pc = "closing"
  /\ workers[u][t].page = "open" \/ pageOk
  /\ workers[u][t].browser = "open" \/ browserOk
  /\ Faults((IF pageOk THEN 0 ELSE 1) + (IF browserOk THEN 0 ELSE 1))
  /\ LET w == workers[u][t]
         p == IF w.page = "open"
                THEN [w EXCEPT !.page = IF pageOk THEN "closed" ELSE "closeFailed"]
                ELSE w
         escaped == ~(pageOk \/ SwallowClose(pageOk))
         b == IF w.browser = "open" /\ ~escaped
                THEN [p EXCEPT !.browser = IF browserOk THEN "closed" ELSE "closeFailed"]
                ELSE p
     IN /\ WorkerStep(u, t, [b EXCEPT !.pc = "settled",
                            !.settled = IF escaped \/ ~(browserOk \/ SwallowClose(browserOk))
                                          THEN "rejected" ELSE "fulfilled"], 0)
        /\ openBrowsers' = IF b.browser = "closed" THEN openBrowsers - 1 ELSE openBrowsers
  /\ UNCHANGED <<cfg, profile, interaction, vm, pacing, globalClickCounter, clickReportData, dataCsv, reports, now,
                 orch, dispatchLog, csvErrors>>

(* ---- the unbounded campaign: src/automated.js --------------------------- *)

BreakInterval  == 10  \* globalClickCounter % 10 === 0: the 30 second break
ReportInterval == 25  \* globalClickCounter % 25 === 0: the periodic report

\* openEnhancedTabs(url, numberOfClicks) up to its first await: the for loop
\* calls createClickWorker(i), which runs up to puppeteer.launch
ClickTaskStarted(i) ==
  [IdleTask EXCEPT !.pc = "awaitWorker", !.i = i, !.batch = << i >>]

\* the for loop over urls calls openEnhancedTabs(urls[u], 1)
CallOpenEnhancedTabs(o, u) ==
  /\ orch' = [o EXCEPT !.pc = "awaitUrl", !.urlIndex = u]
  /\ tasks' = [tasks EXCEPT ![u] = ClickTaskStarted(0)]
  /\ workers' = [workers EXCEPT ![u][0] = LaunchingWorker]
  /\ dispatchLog' = Append(dispatchLog, <<o.cycleCount, u, 0>>)
  /\ pacing' = [pacing EXCEPT
                   !.log = Append(@, IF o.pc = "init" THEN "first"
                                     ELSE IF pacing.last[cfg.urls] = "random" THEN "random"
                                     ELSE "fixed"),
                   !.last = [v \in Urls |-> "none"]]

\* while (true) { for (urlIndex = 0; ...) await openEnhancedTabs(url, 1) ...
\* entered at the start and after the delay between batches
StartBatch ==
  /\ cfg.variant = "unbounded"
  /\ orch.pc \in {"init", "batchDelay"}
  /\ Len(dispatchLog) < MaxSessions
  /\ CallOpenEnhancedTabs(orch, 1)
  /\ UNCHANGED <<cfg, profile, interaction, vm, openBrowsers, globalClickCounter, clickReportData, dataCsv, reports, now,
                 csvErrors, faults>>

\* an await that is over as soon as the worker is in its finally block
AwaitedAtClose(w) == w.pc \in {"closing", "settled"}

\* await createClickWorker(i): the promise of the worker is settled, which it
\* is when the worker's finally block, with its close() calls, has run
Awaited(w) == w.pc = "settled"

\* await createClickWorker(i) is over.  A rejection leaves openEnhancedTabs
\* and runEnhancedAutomation: the campaign ends in catch(console.error).
\* Else the loop of openEnhancedTabs goes on or ends, the loop over the urls
\* calls openEnhancedTabs for the next url, and after the last url batchCount++
\* and the delay between batches.
ClickWorkerSettled(u) ==
  /\ cfg.variant = "unbounded"
  /\ tasks[u].pc = "awaitWorker"
  /\ Awaited(workers[u][tasks[u].i])
  /\ IF workers[u][tasks[u].i].settled = "rejected"
       THEN /\ orch' = [orch EXCEPT !.pc = "crashed"]
            /\ tasks' = [tasks EXCEPT ![u].pc = "rejected", ![u].batch = << >>]
            /\ workers' = [workers EXCEPT ![u][tasks[u].i] = IdleWorker]
            /\ dispatchLog' = dispatchLog
            /\ pacing' = pacing
     ELSE IF tasks[u].i + 1 < cfg.numberOfTabsPerUrl
       THEN /\ Len(dispatchLog) < MaxSessions
            /\ orch' = orch
            /\ tasks' = [tasks EXCEPT ![u].i = @ + 1, ![u].batch = << tasks[u].i + 1 >>]
            /\ workers' = [workers EXCEPT ![u][tasks[u].i] = IdleWorker,
                                          ![u][tasks[u].i + 1] = LaunchingWorker]
            /\ dispatchLog' = Append(dispatchLog, <<orch.cycleCount, u, tasks[u].i + 1>>)
            /\ pacing' = [pacing EXCEPT !.log = Append(@, pacing.last[u]),
                                         !.last[u] = "none"]
     ELSE IF u < cfg.urls
       THEN /\ Len(dispatchLog) < MaxSessions
            /\ orch' = [orch EXCEPT !.urlIndex = u + 1]
            /\ tasks' = [tasks EXCEPT ![u] = [@ EXCEPT !.pc = "returned", !.batch = << >>],
                                      ![u + 1] = ClickTaskStarted(0)]
            /\ workers' = [workers EXCEPT ![u][tasks[u].i] = IdleWorker,
                                          ![u + 1][0] = LaunchingWorker]
            /\ dispatchLog' = Append(dispatchLog, <<orch.cycleCount, u + 1, 0>>)
            /\ pacing' = [pacing EXCEPT !.log = Append(@, pacing.last[u])]
       ELSE /\ orch' = [orch EXCEPT !.pc = "batchDelay", !.cycleCount = @ + 1]
            /\ tasks' = [v \in Urls |-> IdleTask]
            /\ workers' = [workers EXCEPT ![u][tasks[u].i] = IdleWorker]
            /\ dispatchLog' = dispatchLog
            /\ pacing' = pacing
  /\ UNCHANGED <<cfg, profile, interaction, vm, openBrowsers, globalClickCounter, clickReportData, dataCsv, reports, now,
                 csvErrors, faults>>

\* createClickWorker: the session gets through to incrementClickCounter
ClickSessionDone(u, t, outcome) ==
  /\ cfg.variant = "unbounded"
  /\ workers[u][t].pc = "session"
  /\ IF Escapes(outcome)
       THEN /\ WorkerStep(u, t, CatchFinally(HandlesAt(workers[u][t], "none"), "interaction"), 0)
            /\ UNCHANGED <<globalClickCounter, clickReportData>>
       ELSE IncrementAndAppend(u, t, AfterInteraction(HandlesAt(workers[u][t], "none"), outcome))
  /\ openBrowsers' = openBrowsers + Launched("none")
  /\ UNCHANGED <<cfg, profile, interaction, vm, pacing, dataCsv, reports, now, orch, dispatchLog, csvErrors, faults>>

\* createClickWorker: launch, newPage, goto or the page checks reject
ClickSessionFailed(u, t, step) ==
  /\ cfg.variant = "unbounded"
  /\ workers[u][t].pc = "session"
  /\ Fault(FALSE)
  /\ WorkerStep(u, t, CatchFinally(HandlesAt(workers[u][t], step), step), 0)
  /\ openBrowsers' = openBrowsers + Launched(step)
  /\ UNCHANGED <<cfg, profile, interaction, vm, pacing, globalClickCounter, clickReportData, dataCsv, reports, now,
                 orch, dispatchLog, csvErrors>>

\* incrementClickCounter after the periodic report: the 30 second break every
\* BreakInterval clicks, else return true, completedClicks++ and the random
\* delay of createClickWorker
AfterReport(w) ==
  IF globalClickCounter % BreakInterval = 0
    THEN [w EXCEPT !.pc = "break"]
    ELSE [w EXCEPT !.pc = "rateDelay"]

Completed(w) == IF w.pc = "rateDelay" THEN 1 ELSE 0

\* await appendFile is over; incrementClickCounter goes on to the periodic
\* report every ReportInterval clicks
ClickAppendDone(u, t, ok) ==
  /\ cfg.variant = "unbounded"
  /\ workers[u][t].pc = "append"
  /\ Fault(ok)
  /\ dataCsv' = IF ok
                  THEN [exists |-> TRUE,
                        rows |-> dataCsv.rows \o
                                 CsvContent(workers[u][t].fileExists,
                                            [clickNumber |-> workers[u][t].clickNumber])]
                  ELSE dataCsv
  /\ csvErrors' = IF ok THEN csvErrors ELSE csvErrors + 1
  /\ IF globalClickCounter % ReportInterval = 0
       THEN \E tm \in now .. MaxClock :
              /\ now' = tm
              /\ WorkerStep(u, t, [InteractionOver(workers[u][t], ok) EXCEPT !.pc = "report",
                                     !.repName = ReportCall(tm).name,
                                     !.repContent = ReportCall(tm).content], 0)
       ELSE /\ now' = now
            /\ WorkerStep(u, t, AfterReport(InteractionOver(workers[u][t], ok)),
                          Completed(AfterReport(workers[u][t])))
  /\ pacing' = [pacing EXCEPT
                   !.snapshots = IF globalClickCounter % ReportInterval = 0 THEN @ + 1 ELSE @]
  /\ UNCHANGED <<cfg, profile, interaction, vm, openBrowsers, globalClickCounter, clickReportData, reports, orch, dispatchLog>>

\* await writeFile of the periodic report resolves, and incrementClickCounter
\* goes on, or rejects: generateCSVReport rethrows, incrementClickCounter
\* rejects and createClickWorker ends in catch and finally
ClickReportDone(u, t, ok) ==
  /\ cfg.variant = "unbounded"
  /\ workers[u][t].pc = "report"
  /\ Fault(ok)
  /\ reports' = IF ok THEN Append(reports, [name |-> workers[u][t].repName,
                                            content |-> workers[u][t].repContent])
                      ELSE reports
  /\ IF ok THEN WorkerStep(u, t, AfterReport(workers[u][t]),
                           Completed(AfterReport(workers[u][t])))
           ELSE WorkerStep(u, t, CatchFinally(workers[u][t], "report"), 0)
  /\ UNCHANGED <<cfg, profile, interaction, vm, pacing, openBrowsers, globalClickCounter, clickReportData, dataCsv, now,
                 orch, dispatchLog, csvErrors>>

\* await delay(30000) is over: return true, completedClicks++, the random delay
ClickBreakDone(u, t) ==
  /\ cfg.variant = "unbounded"
  /\ workers[u][t].pc = "break"
  /\ WorkerStep(u, t, [workers[u][t] EXCEPT !.pc = "rateDelay"], 1)
  /\ pacing' = [pacing EXCEPT !.breaks = @ + 1]
  /\ UNCHANGED <<cfg, profile, interaction, vm, openBrowsers, globalClickCounter, clickReportData, dataCsv, reports, now,
                 orch, dispatchLog, csvErrors, faults>>

\* await delay(randomDelay) is over: the try block ends, finally
ClickRateDelayDone(u, t) ==
  /\ cfg.variant = "unbounded"
  /\ workers[u][t].pc = "rateDelay"
  /\ WorkerStep(u, t, Finally(workers[u][t]), 0)
  /\ pacing' = [pacing EXCEPT !.last[u] = "random"]
  /\ UNCHANGED <<cfg, profile, interaction, vm, openBrowsers, globalClickCounter, clickReportData, dataCsv, reports, now,
                 orch, dispatchLog, csvErrors, faults>>

(* ---- the browsing profile: src/automated.js ------------------------------ *)

\* Math.random() is k / RandomSteps for a k in 0 .. RandomSteps - 1
RandomDraws == 0 .. (RandomSteps - 1)

\* Math.floor(Math.random() * n)
RandomIndex(k, n) == (k * n) \div RandomSteps

\* const connectionTypes: type and downlink of every entry, the downlink in
\* hundredths of a Mbps (0.25 Mbps is 25)
connectionTypes ==
  <<
   [type |-> "fiber", downlink |-> 10000],
   [type |-> "fiber", downlink |-> 5000],
   [type |-> "fiber", downlink |-> 2500],
   [type |-> "cable", downlink |-> 2000],
   [type |-> "cable", downlink |-> 1500],
   [type |-> "dsl", downlink |-> 800], [type |-> "dsl", downlink |-> 400],
   [type |-> "4g", downlink |-> 2500], [type |-> "4g", downlink |-> 1500],
   [type |-> "4g", downlink |-> 1200], [type |-> "4g", downlink |-> 1000],
   [type |-> "4g", downlink |-> 800], [type |-> "4g", downlink |-> 500],
   [type |-> "5g", downlink |-> 20000],
   [type |-> "5g", downlink |-> 15000],
   [type |-> "5g", downlink |-> 10000], [type |-> "3g", downlink |-> 300],
   [type |-> "3g", downlink |-> 200], [type |-> "3g", downlink |-> 150],
   [type |-> "2g", downlink |-> 50], [type |-> "slow-2g", downlink |-> 25],
   [type |-> "wifi", downlink |-> 5000],
   [type |-> "wifi", downlink |-> 3000],
   [type |-> "wifi", downlink |-> 1500],
   [type |-> "wifi", downlink |-> 800],
   [type |-> "wifi", downlink |-> 500],
   [type |-> "satellite", downlink |-> 1000],
   [type |-> "satellite", downlink |-> 500]
  >>

\* Array.prototype.filter with the test of tier1, tier2 and tier3:
\* types.includes(conn.type) && conn.downlink >= floor
RECURSIVE Filter(_, _, _)
Filter(s, types, floor) ==
  IF s = << >> THEN << >>
  ELSE IF Head(s).type \in types /\ Head(s).downlink >= floor
    THEN << Head(s) >> \o Filter(Tail(s), types, floor)
    ELSE Filter(Tail(s), types, floor)

\* the test of rural: types.includes(conn.type) && conn.downlink <= ceiling
RECURSIVE FilterBelow(_, _, _)
FilterBelow(s, types, ceiling) ==
  IF s = << >> THEN << >>
  ELSE IF Head(s).type \in types /\ Head(s).downlink <= ceiling
    THEN << Head(s) >> \o FilterBelow(Tail(s), types, ceiling)
    ELSE FilterBelow(Tail(s), types, ceiling)

\* the switch of getRandomConnectionType
filteredConnections(locationTier) ==
  CASE locationTier = "tier1" ->
         Filter(connectionTypes, {"fiber", "cable", "5g", "4g", "wifi"}, 500)
    [] locationTier = "tier2" ->
         Filter(connectionTypes, {"fiber", "cable", "4g", "3g", "wifi", "dsl"}, 200)
    [] locationTier = "tier3" ->
         Filter(connectionTypes, {"4g", "3g", "2g", "wifi", "dsl"}, 0)
    [] locationTier = "rural" ->
         FilterBelow(connectionTypes, {"4g", "3g", "2g", "satellite"}, 1000)
    [] OTHER -> connectionTypes

\* filteredConnections[Math.floor(Math.random() * filteredConnections.length)]:
\* an index outside of the array gives undefined
getRandomConnectionType(locationTier, k) ==
  LET f == filteredConnections(locationTier) IN
  IF RandomIndex(k, Len(f)) + 1 \in 1 .. Len(f)
    THEN f[RandomIndex(k, Len(f)) + 1]
    ELSE [type |-> "undefined", downlink |-> 0]

tier1Cities ==
  {
   "Mumbai", "New Delhi", "Bangalore", "Chennai", "Pune", "Hyderabad",
   "Kolkata", "Ahmedabad", "Gurgaon", "Noida"
  }

tier2Cities ==
  {
   "Surat", "Jaipur", "Lucknow", "Kanpur", "Nagpur", "Indore", "Bhopal",
   "Visakhapatnam", "Patna", "Vadodara", "Ludhiana", "Agra", "Nashik",
   "Faridabad", "Meerut", "Rajkot", "Varanasi", "Aurangabad", "Amritsar",
   "Allahabad", "Ranchi", "Howrah", "Coimbatore", "Jabalpur", "Gwalior",
   "Vijayawada", "Jodhpur", "Madurai", "Raipur", "Kota", "Chandigarh",
   "Guwahati", "Solapur", "Hubli", "Mysore", "Tiruchirappalli", "Salem",
   "Thiruvananthapuram", "Guntur", "Bikaner", "Amravati", "Jamshedpur",
   "Bhilai", "Cuttack", "Kochi", "Bhavnagar", "Dehradun", "Durgapur",
   "Asansol", "Kolhapur", "Ajmer", "Gulbarga", "Jamnagar", "Ujjain",
   "Siliguri", "Jhansi", "Jammu", "Mangalore", "Erode", "Belgaum",
   "Tirunelveli", "Udaipur"
  }

\* a tier table that knows no metro city
getLocationTierNoMetro(cityName) ==
  IF cityName \in tier2Cities THEN "tier2" ELSE "tier3"

getLocationTier(cityName) ==
  IF cityName \in tier1Cities THEN "tier1"
  ELSE IF cityName \in tier2Cities THEN "tier2"
  ELSE "tier3"

\* const indianIPData: the city of every record, in the order of the table
indianIPData ==
  <<
   "Mumbai", "Mumbai", "Pune", "Pune", "Nagpur", "Nashik", "Aurangabad",
   "New Delhi", "New Delhi", "Gurgaon", "Noida", "Faridabad", "Ghaziabad",
   "Delhi", "Bangalore", "Bangalore", "Mysore", "Mangalore", "Hubli",
   "Chennai", "Chennai", "Coimbatore", "Madurai", "Salem", "Hyderabad",
   "Hyderabad", "Visakhapatnam", "Vijayawada", "Kolkata", "Kolkata",
   "Durgapur", "Siliguri", "Ahmedabad", "Surat", "Vadodara", "Rajkot",
   "Jaipur", "Jodhpur", "Udaipur", "Kota", "Kochi", "Thiruvananthapuram",
   "Kozhikode", "Thrissur", "Ludhiana", "Amritsar", "Jalandhar", "Patiala",
   "Bhubaneswar", "Cuttack", "Berhampur", "Indore", "Bhopal", "Jabalpur",
   "Gwalior", "Lucknow", "Kanpur", "Agra", "Varanasi", "Meerut", "Patna",
   "Gaya", "Bhagalpur", "Guwahati", "Dibrugarh", "Silchar", "Ranchi",
   "Jamshedpur", "Dhanbad", "Raipur", "Bhilai", "Bilaspur", "Dehradun",
   "Haridwar", "Nainital", "Chandigarh", "Shimla", "Jammu", "Srinagar",
   "Panaji", "Margao", "Puducherry"
  >>

\* const indianCoordinates: latitude and longitude in millionths of a degree
indianCoordinates ==
  [city \in {
     "Mumbai", "New Delhi", "Bangalore", "Chennai", "Pune", "Hyderabad",
     "Kolkata", "Ahmedabad", "Gurgaon", "Noida", "Surat", "Jaipur",
     "Lucknow", "Kanpur", "Nagpur", "Indore", "Bhopal", "Visakhapatnam",
     "Patna", "Vadodara", "Ludhiana", "Agra", "Nashik", "Faridabad",
     "Meerut", "Rajkot", "Kalyan-Dombivali", "Vasai-Virar", "Varanasi",
     "Srinagar", "Aurangabad", "Dhanbad", "Amritsar", "Navi Mumbai",
     "Allahabad", "Ranchi", "Howrah", "Coimbatore", "Jabalpur", "Gwalior",
     "Vijayawada", "Jodhpur", "Madurai", "Raipur", "Kota", "Chandigarh",
     "Guwahati", "Solapur", "Hubli", "Bareilly", "Moradabad", "Mysore",
     "Aligarh", "Jalandhar", "Tiruchirappalli", "Bhubaneswar", "Salem",
     "Mira-Bhayandar", "Warangal", "Thiruvananthapuram", "Guntur",
     "Bhiwandi", "Saharanpur", "Gorakhpur", "Bikaner", "Amravati",
     "Jamshedpur", "Bhilai Nagar", "Cuttack", "Firozabad", "Kochi",
     "Bhavnagar", "Dehradun", "Durgapur", "Asansol", "Nanded", "Kolhapur",
     "Ajmer", "Akola", "Gulbarga", "Jamnagar", "Ujjain", "Loni",
     "Siliguri", "Jhansi", "Ulhasnagar", "Jammu", "Sangli-Miraj",
     "Mangalore", "Erode", "Belgaum", "Ambattur", "Tirunelveli",
     "Malegaon", "Gaya", "Jalgaon", "Udaipur", "Maheshtala"
   } |->
   CASE city = "Mumbai" -> [lat |-> 19076000, lng |-> 72877700]
     [] city = "New Delhi" -> [lat |-> 28704100, lng |-> 77102500]
     [] city = "Bangalore" -> [lat |-> 12971600, lng |-> 77594600]
     [] city = "Chennai" -> [lat |-> 13082700, lng |-> 80270700]
     [] city = "Pune" -> [lat |-> 18520400, lng |-> 73856700]
     [] city = "Hyderabad" -> [lat |-> 17385000, lng |-> 78486700]
     [] city = "Kolkata" -> [lat |-> 22572600, lng |-> 88363900]
     [] city = "Ahmedabad" -> [lat |-> 23022500, lng |-> 72571400]
     [] city = "Gurgaon" -> [lat |-> 28459500, lng |-> 77026600]
     [] city = "Noida" -> [lat |-> 28535500, lng |-> 77391000]
     [] city = "Surat" -> [lat |-> 21170200, lng |-> 72831100]
     [] city = "Jaipur" -> [lat |-> 26912400, lng |-> 75787300]
     [] city = "Lucknow" -> [lat |-> 26846700, lng |-> 80946200]
     [] city = "Kanpur" -> [lat |-> 26449900, lng |-> 80331900]
     [] city = "Nagpur" -> [lat |-> 21145800, lng |-> 79088200]
     [] city = "Indore" -> [lat |-> 22719600, lng |-> 75857700]
     [] city = "Bhopal" -> [lat |-> 23259900, lng |-> 77412600]
     [] city = "Visakhapatnam" -> [lat |-> 17686800, lng |-> 83218500]
     [] city = "Patna" -> [lat |-> 25594100, lng |-> 85137600]
     [] city = "Vadodara" -> [lat |-> 22307200, lng |-> 73181200]
     [] city = "Ludhiana" -> [lat |-> 30900900, lng |-> 75857300]
     [] city = "Agra" -> [lat |-> 27176700, lng |-> 78008100]
     [] city = "Nashik" -> [lat |-> 19997500, lng |-> 73789800]
     [] city = "Faridabad" -> [lat |-> 28408900, lng |-> 77317800]
     [] city = "Meerut" -> [lat |-> 28984500, lng |-> 77706400]
     [] city = "Rajkot" -> [lat |-> 22303900, lng |-> 70802200]
     [] city = "Kalyan-Dombivali" -> [lat |-> 19240300, lng |-> 73130500]
     [] city = "Vasai-Virar" -> [lat |-> 19491400, lng |-> 72805400]
     [] city = "Varanasi" -> [lat |-> 25317600, lng |-> 82973900]
     [] city = "Srinagar" -> [lat |-> 34083700, lng |-> 74797300]
     [] city = "Aurangabad" -> [lat |-> 19876200, lng |-> 75343300]
     [] city = "Dhanbad" -> [lat |-> 23795700, lng |-> 86430400]
     [] city = "Amritsar" -> [lat |-> 31634000, lng |-> 74872300]
     [] city = "Navi Mumbai" -> [lat |-> 19033000, lng |-> 73029700]
     [] city = "Allahabad" -> [lat |-> 25435800, lng |-> 81846300]
     [] city = "Ranchi" -> [lat |-> 23344100, lng |-> 85309600]
     [] city = "Howrah" -> [lat |-> 22595800, lng |-> 88263600]
     [] city = "Coimbatore" -> [lat |-> 11016800, lng |-> 76955800]
     [] city = "Jabalpur" -> [lat |-> 23181500, lng |-> 79986400]
     [] city = "Gwalior" -> [lat |-> 26218300, lng |-> 78182800]
     [] city = "Vijayawada" -> [lat |-> 16506200, lng |-> 80648000]
     [] city = "Jodhpur" -> [lat |-> 26238900, lng |-> 73024300]
     [] city = "Madurai" -> [lat |-> 9925200, lng |-> 78119800]
     [] city = "Raipur" -> [lat |-> 21251400, lng |-> 81629600]
     [] city = "Kota" -> [lat |-> 25213800, lng |-> 75864800]
     [] city = "Chandigarh" -> [lat |-> 30733300, lng |-> 76779400]
     [] city = "Guwahati" -> [lat |-> 26144500, lng |-> 91736200]
     [] city = "Solapur" -> [lat |-> 17659900, lng |-> 75906400]
     [] city = "Hubli" -> [lat |-> 15364700, lng |-> 75124000]
     [] city = "Bareilly" -> [lat |-> 28367000, lng |-> 79430400]
     [] city = "Moradabad" -> [lat |-> 28838600, lng |-> 78773300]
     [] city = "Mysore" -> [lat |-> 12295800, lng |-> 76639400]
     [] city = "Aligarh" -> [lat |-> 27897400, lng |-> 78088000]
     [] city = "Jalandhar" -> [lat |-> 31326000, lng |-> 75576200]
     [] city = "Tiruchirappalli" -> [lat |-> 10790500, lng |-> 78704700]
     [] city = "Bhubaneswar" -> [lat |-> 20296100, lng |-> 85824500]
     [] city = "Salem" -> [lat |-> 11664300, lng |-> 78146000]
     [] city = "Mira-Bhayandar" -> [lat |-> 19295200, lng |-> 72854400]
     [] city = "Warangal" -> [lat |-> 17968900, lng |-> 79594100]
     [] city = "Thiruvananthapuram" -> [lat |-> 8524100, lng |-> 76936600]
     [] city = "Guntur" -> [lat |-> 16306700, lng |-> 80436500]
     [] city = "Bhiwandi" -> [lat |-> 19300200, lng |-> 73063700]
     [] city = "Saharanpur" -> [lat |-> 29968000, lng |-> 77555200]
     [] city = "Gorakhpur" -> [lat |-> 26760600, lng |-> 83373200]
     [] city = "Bikaner" -> [lat |-> 28022900, lng |-> 73311900]
     [] city = "Amravati" -> [lat |-> 20937400, lng |-> 77779600]
     [] city = "Jamshedpur" -> [lat |-> 22804600, lng |-> 86202900]
     [] city = "Bhilai Nagar" -> [lat |-> 21193800, lng |-> 81350900]
     [] city = "Cuttack" -> [lat |-> 20462500, lng |-> 85882800]
     [] city = "Firozabad" -> [lat |-> 27159200, lng |-> 78395700]
     [] city = "Kochi" -> [lat |-> 9931200, lng |-> 76267300]
     [] city = "Bhavnagar" -> [lat |-> 21764500, lng |-> 72151900]
     [] city = "Dehradun" -> [lat |-> 30316500, lng |-> 78032200]
     [] city = "Durgapur" -> [lat |-> 23480300, lng |-> 87311900]
     [] city = "Asansol" -> [lat |-> 23673900, lng |-> 86992400]
     [] city = "Nanded" -> [lat |-> 19138300, lng |-> 77297500]
     [] city = "Kolhapur" -> [lat |-> 16705000, lng |-> 74243300]
     [] city = "Ajmer" -> [lat |-> 26449900, lng |-> 74639900]
     [] city = "Akola" -> [lat |-> 20700200, lng |-> 77008200]
     [] city = "Gulbarga" -> [lat |-> 17329700, lng |-> 76834300]
     [] city = "Jamnagar" -> [lat |-> 22470700, lng |-> 70057700]
     [] city = "Ujjain" -> [lat |-> 23176500, lng |-> 75788500]
     [] city = "Loni" -> [lat |-> 28733300, lng |-> 77283300]
     [] city = "Siliguri" -> [lat |-> 26727100, lng |-> 88395300]
     [] city = "Jhansi" -> [lat |-> 25448400, lng |-> 78568500]
     [] city = "Ulhasnagar" -> [lat |-> 19218300, lng |-> 73153500]
     [] city = "Jammu" -> [lat |-> 32726600, lng |-> 74857000]
     [] city = "Sangli-Miraj" -> [lat |-> 16852400, lng |-> 74581500]
     [] city = "Mangalore" -> [lat |-> 12914100, lng |-> 74856000]
     [] city = "Erode" -> [lat |-> 11341000, lng |-> 77717200]
     [] city = "Belgaum" -> [lat |-> 15849700, lng |-> 74497700]
     [] city = "Ambattur" -> [lat |-> 13114300, lng |-> 80154800]
     [] city = "Tirunelveli" -> [lat |-> 8713900, lng |-> 77756700]
     [] city = "Malegaon" -> [lat |-> 20557900, lng |-> 74528700]
     [] city = "Gaya" -> [lat |-> 24791400, lng |-> 85000200]
     [] city = "Jalgaon" -> [lat |-> 21007700, lng |-> 75562600]
     [] city = "Udaipur" -> [lat |-> 24585400, lng |-> 73712500]
     [] city = "Maheshtala" -> [lat |-> 22498300, lng |-> 88248300]]

\* (Math.random() - 0.5) * 0.01 degrees, in millionths of a degree
Jitter(k) == (k * 10000) \div RandomSteps - 5000

\* indianCoordinates[cityName] || indianCoordinates['Mumbai'], with the jitter;
\* k1 and k2 are the two draws of the call
getRandomCoordinatesForCity(cityName, k1, k2) ==
  LET coords == IF cityName \in DOMAIN indianCoordinates
                  THEN indianCoordinates[cityName]
                  ELSE indianCoordinates["Mumbai"]
  IN [lat |-> coords.lat + Jitter(k1), lng |-> coords.lng + Jitter(k2)]

\* generateIndianIPData: a record of the table is drawn (k0), then latitude
\* and longitude come from two calls of getRandomCoordinatesForCity (the
\* latitude of the first, draw k1, the longitude of the second, draw k2)
generateIndianIPData(k0, k1, k2) ==
  LET ipData == indianIPData[RandomIndex(k0, Len(indianIPData)) + 1] IN
  [NoProfile EXCEPT !.kind = "ipData", !.city = ipData,
                    !.latitude = getRandomCoordinatesForCity(ipData, k1, k1).lat,
                    !.longitude = getRandomCoordinatesForCity(ipData, k2, k2).lng]

GenerateIndianIPData(k0, k1, k2) ==
  /\ profile = NoProfile
  /\ profile' = generateIndianIPData(k0, k1, k2)
  /\ UNCHANGED <<cfg, interaction, vm, globalClickCounter, clickReportData, dataCsv, reports,
                 now, orch, tasks, workers, dispatchLog, csvErrors, faults, openBrowsers, pacing>>

\* getRandomConnectionType(getLocationTier(city)) for the city of a record of
\* the table (row), k the draw
GetRandomConnectionType(row, k) ==
  /\ profile = NoProfile
  /\ profile' =
       [NoProfile EXCEPT
          !.kind = "connection", !.city = indianIPData[row],
          !.type = getRandomConnectionType(getLocationTier(indianIPData[row]), k).type,
          !.downlink = getRandomConnectionType(getLocationTier(indianIPData[row]), k).downlink]
  /\ UNCHANGED <<cfg, interaction, vm, globalClickCounter, clickReportData, dataCsv, reports,
                 now, orch, tasks, workers, dispatchLog, csvErrors, faults, openBrowsers, pacing>>

\* Math.floor(Math.random() * n) for the draw k of FineSteps
FineDraws == 0 .. (FineSteps - 1)
FineIndex(k, n) == (k * n) \div FineSteps

\* an octet drawn from 0..254
lastOctetFromZero(k) == FineIndex(k, 255)

\* generateIndianIPData: const lastOctet = Math.floor(Math.random() * 254) + 1
lastOctet(k) == FineIndex(k, 254) + 1

\* generateAccountDetails: userId: Math.floor(Math.random() * 9000) + 1000
userId(k) == FineIndex(k, 9000) + 1000

\* the last octet generateIndianIPData appends to the address of the record
GenerateLastOctet(k) ==
  /\ profile = NoProfile
  /\ profile' = [NoProfile EXCEPT !.kind = "lastOctet", !.number = lastOctet(k)]
  /\ UNCHANGED <<cfg, interaction, vm, globalClickCounter, clickReportData, dataCsv, reports,
                 now, orch, tasks, workers, dispatchLog, csvErrors, faults, openBrowsers, pacing>>

\* the userId of generateAccountDetails
GenerateAccountDetails(k) ==
  /\ profile = NoProfile
  /\ profile' = [NoProfile EXCEPT !.kind = "userId", !.number = userId(k)]
  /\ UNCHANGED <<cfg, interaction, vm, globalClickCounter, clickReportData, dataCsv, reports,
                 now, orch, tasks, workers, dispatchLog, csvErrors, faults, openBrowsers, pacing>>

\* the city names getLocationTier is applied to: those of the tier lists, of
\* the IP table and of the coordinate table, and names that are in no list
CityNames ==
  tier1Cities \cup tier2Cities \cup {indianIPData[row] : row \in 1 .. Len(indianIPData)}
    \cup DOMAIN indianCoordinates \cup {"", "mumbai", "Delhi NCR", "rural", "Unknown"}

\* getLocationTier(cityName) for a city name
GetLocationTier(cityName) ==
  /\ profile = NoProfile
  /\ profile' = [NoProfile EXCEPT !.kind = "tier", !.city = cityName,
                                  !.type = getLocationTier(cityName)]
  /\ UNCHANGED <<cfg, interaction, vm, globalClickCounter, clickReportData, dataCsv, reports,
                 now, orch, tasks, workers, dispatchLog, csvErrors, faults, openBrowsers, pacing>>

(* ---- the interaction block of a session -------------------------------- *)

\* The selectors of the code fall into groups; a page is described by the
\* elements each group of selectors finds on it, and an element by what its
\* click() does: it clicks, or it throws.
Groups == {"structural", "text", "class", "anyButton", "attribute", "anyClickable"}
ClickResults == {"clicked", "throws"}
Elements == UNION {[1 .. n -> ClickResults] : n \in 0 .. MaxElements}
Pages == [Groups -> Elements]

\* const submitSelectors = [...]: 'button[type="submit"]', 'input[type="submit"]',
\* the button:contains(...) selectors, the class and id selectors and 'button',
\* in the order of each variant
submitSelectors(variant) ==
  IF variant = "unbounded"
    THEN << "structural", "structural", "text", "text", "text", "text", "text",
            "class", "class", "class", "class", "class", "anyButton" >>
    ELSE << "structural", "structural", "text", "text", "text", "anyButton",
            "class", "class", "class", "class" >>

\* const fallbackSelectors = [...]: '[onclick*="send"]', ..., '[role="button"]';
\* the bounded variant has no such list
fallbackSelectors(variant) ==
  IF variant = "unbounded"
    THEN << "attribute", "attribute", "attribute", "attribute",
            "attribute", "attribute", "attribute", "attribute" >>
    ELSE << >>

\* the unbounded variant wraps the click of an element of a CSS selector in
\* its own try/catch and goes on with the next element; a click that throws
\* for a text selector, or anywhere in the bounded variant, leaves the
\* selector through the catch of the selector loop
CatchesEachClick(variant, group) == variant = "unbounded" /\ group # "text"

\* for (let i = 0; i < Math.min(3, anyClickable.length); i++) in the unbounded
\* variant, clickableElements[0] in the bounded one
AnyClickableLimit(variant) == IF variant = "unbounded" THEN 3 ELSE 1

\* the elements of a selector that are clicked: up to the first that clicks,
\* or, without a catch per element, the first one only
RECURSIVE Tried(_, _, _)
Tried(els, i, catchEach) ==
  IF i > Len(els) THEN << >>
  ELSE IF els[i] = "clicked" \/ ~catchEach THEN << els[i] >>
  ELSE << els[i] >> \o Tried(els, i + 1, catchEach)

\* the clicks tried for the selector at the given position of the code's order
AttemptsOf(variant, position, group, els) ==
  LET r == Tried(els, 1, CatchesEachClick(variant, group)) IN
  [k \in 1 .. Len(r) |-> [position |-> position, group |-> group, result |-> r[k]]]

\* a flag that is never set
SubmittedNever(attempts) == FALSE

\* let submitted = false; ... submitted = true after a click that did not throw
Submitted(attempts) == \E i \in 1 .. Len(attempts) : attempts[i].result = "clicked"

\* for (const selector of selectors) { ...; if (submitted) break; }
RECURSIVE RunSelectors(_, _, _, _, _, _)
RunSelectors(variant, selectors, k, offset, page, attempts) ==
  IF k > Len(selectors) \/ Submitted(attempts) THEN attempts
  ELSE RunSelectors(variant, selectors, k + 1, offset, page,
                    attempts \o AttemptsOf(variant, offset + k, selectors[k],
                                           page[selectors[k]]))

\* the position of the final any-clickable block in the code's order
FinalPosition(variant) == Len(submitSelectors(variant)) + Len(fallbackSelectors(variant)) + 1

\* the group of the selector at a position of the code's order
GroupAt(variant, position) ==
  (submitSelectors(variant) \o fallbackSelectors(variant) \o << "anyClickable" >>)[position]

\* The interaction block: the loop over submitSelectors, if (!submitted) the
\* loop over fallbackSelectors, if (!submitted) the any-clickable elements.
Interact(variant, page) ==
  LET primary  == RunSelectors(variant, submitSelectors(variant), 1, 0, page, << >>)
      fallback == IF Submitted(primary) THEN primary
                  ELSE RunSelectors(variant, fallbackSelectors(variant), 1,
                                    Len(submitSelectors(variant)), page, primary)
      limit    == IF Len(page["anyClickable"]) < AnyClickableLimit(variant)
                    THEN Len(page["anyClickable"]) ELSE AnyClickableLimit(variant)
  IN IF Submitted(fallback) THEN fallback
     ELSE fallback \o AttemptsOf(variant, FinalPosition(variant), "anyClickable",
                                 SubSeq(page["anyClickable"], 1, limit))

\* the interaction block of one session of the given variant on the given page
InteractionBlock(variant, page) ==
  /\ interaction = NoInteraction
  /\ interaction' = [variant |-> variant, page |-> page, attempts |-> Interact(variant, page)]
  /\ UNCHANGED <<cfg, profile, vm, globalClickCounter, clickReportData, dataCsv, reports,
                 now, orch, tasks, workers, dispatchLog, csvErrors, faults, openBrowsers, pacing>>

(* ---- the demonstration of the VM rotation: src/demo-vm-system.js --------- *)

DemoClicks  == 12  \* for (let click = 1; click <= 12; click++)
ClicksPerVm == 5   \* if (vmClickCounter > 5)

\* const vendorPrefixes = [...] of generateMacAddress and const osList = [...]
\* of generateSystemProfile: the number of entries of each
VendorPrefixes == 5
OsList == 3

\* a rotation with the fifth click of a VM instead of after it
RotatesAtLimit(counter) == counter >= ClicksPerVm

\* if (vmClickCounter > 5): the VM is rotated
Rotates(counter) == counter > ClicksPerVm

\* generateMacAddress() and generateSystemProfile(): the vendor prefix and the
\* operating system drawn with Math.floor(Math.random() * length)
Identity(k1, k2) ==
  [vendor |-> RandomIndex(k1, VendorPrefixes), os |-> RandomIndex(k2, OsList)]

NoIdentity == [vendor |-> -1, os |-> -1]

\* One pass of the loop: vmClickCounter++, the rotation test, the identity
\* generated when vmClickCounter === 1, and the line logged for the click.
DemoClick(k1, k2) ==
  /\ vm.click < DemoClicks
  /\ LET counter  == vm.vmClickCounter + 1
         rotated  == Rotates(counter)
         vmId     == IF rotated THEN vm.currentVmId + 1 ELSE vm.currentVmId
         inVm     == IF rotated THEN 1 ELSE counter
         identity == IF inVm = 1 THEN Identity(k1, k2) ELSE NoIdentity
     IN vm' = [click |-> vm.click + 1, vmClickCounter |-> inVm, currentVmId |-> vmId,
               log |-> Append(vm.log, [click |-> vm.click + 1, currentVmId |-> vmId,
                                        vmClickCounter |-> inVm, rotated |-> rotated,
                                        identity |-> identity])]
  /\ UNCHANGED <<cfg, profile, interaction, globalClickCounter, clickReportData, dataCsv,
                 reports, now, orch, tasks, workers, dispatchLog, csvErrors, faults,
                 openBrowsers, pacing>>

(* ---- specification ----------------------------------------------------- *)

Next ==
  \/ RunCycle
  \/ CycleComplete
  \/ \E ok \in BOOLEAN : FinalReportDone(ok)
  \/ \E u \in Urls : BatchSettled(u)
  \/ \E u \in Urls : BatchDelayDone(u)
  \/ \E u \in Urls, t \in Tabs, outcome \in SessionOutcomes : SessionDone(u, t, outcome)
  \/ \E u \in Urls, t \in Tabs, step \in SessionFailures : SessionFailed(u, t, step)
  \/ \E u \in Urls, t \in Tabs, ok \in BOOLEAN : AppendDone(u, t, ok)
  \/ \E u \in Urls, t \in Tabs, ok \in BOOLEAN : ReportDone(u, t, ok)
  \/ \E u \in Urls, t \in Tabs, pageOk \in BOOLEAN, browserOk \in BOOLEAN :
        ClosingDone(u, t, pageOk, browserOk)
  \/ StartBatch
  \/ \E u \in Urls : ClickWorkerSettled(u)
  \/ \E u \in Urls, t \in Tabs, outcome \in SessionOutcomes : ClickSessionDone(u, t, outcome)
  \/ \E u \in Urls, t \in Tabs, step \in SessionFailures : ClickSessionFailed(u, t, step)
  \/ \E u \in Urls, t \in Tabs, ok \in BOOLEAN : ClickAppendDone(u, t, ok)
  \/ \E u \in Urls, t \in Tabs, ok \in BOOLEAN : ClickReportDone(u, t, ok)
  \/ \E u \in Urls, t \in Tabs : ClickBreakDone(u, t)
  \/ \E u \in Urls, t \in Tabs : ClickRateDelayDone(u, t)

Spec == Init /\ [][Next]_vars

\* The event loop runs a job whenever one is ready, and every awaited
\* operation of the environment (puppeteer, fs, timers) ends, resolved or
\* rejected: the campaign does not stop while a step can be taken.  At most
\* MaxFaults operations reject, so that sessions succeed again and again.
FairSpec == Spec /\ WF_vars(Next)

\* the generators of the browsing profile, each applied once to every record
\* of the tables and every value of Math.random()
InitProfile ==
  /\ Start
  /\ cfg.variant = "unbounded" /\ cfg.urls = 1

NextProfile ==
  /\ profile = NoProfile
  /\ \/ \E k0, k1, k2 \in RandomDraws : GenerateIndianIPData(k0, k1, k2)
     \/ \E row \in 1 .. Len(indianIPData), k \in RandomDraws : GetRandomConnectionType(row, k)
     \/ \E cityName \in CityNames : GetLocationTier(cityName)
     \/ \E k \in FineDraws : GenerateLastOctet(k)
     \/ \E k \in FineDraws : GenerateAccountDetails(k)

ProfileSpec == InitProfile /\ [][NextProfile]_vars

\* the interaction block, applied once to every page of the bounded set
NextInteraction ==
  /\ interaction = NoInteraction
  /\ \E variant \in {"bounded", "unbounded"}, page \in Pages : InteractionBlock(variant, page)

InteractionSpec == InitProfile /\ [][NextInteraction]_vars

\* the demonstration loop, with every identity the generators can draw
\* (the generators draw only in a pass that begins a VM)
BeginsVm == vm.vmClickCounter = 0 \/ Rotates(vm.vmClickCounter + 1)

NextDemo ==
  \/ BeginsVm /\ \E k1, k2 \in RandomDraws : DemoClick(k1, k2)
  \/ ~BeginsVm /\ DemoClick(0, 0)

DemoSpec == InitProfile /\ [][NextDemo]_vars

(* ---- the scenario of three URLs ---------------------------------------- *)

\* three target URLs, concurrency 1, budget 2
InitScenario ==
  /\ Start
  /\ cfg.variant = "bounded"
  /\ cfg.urls = 3 /\ cfg.concurrentTabsPerUrl = 1 /\ cfg.MAX_CLICKS = 2

\* every awaited operation resolves: all sessions succeed
NextAllSucceed ==
  \/ RunCycle
  \/ CycleComplete
  \/ FinalReportDone(TRUE)
  \/ \E u \in Urls : BatchSettled(u)
  \/ \E u \in Urls : BatchDelayDone(u)
  \/ \E u \in Urls, t \in Tabs, outcome \in SessionOutcomes : SessionDone(u, t, outcome)
  \/ \E u \in Urls, t \in Tabs : AppendDone(u, t, TRUE)
  \/ \E u \in Urls, t \in Tabs : ReportDone(u, t, TRUE)
  \/ \E u \in Urls, t \in Tabs : ClosingDone(u, t, TRUE, TRUE)

SpecScenario == InitScenario /\ [][NextAllSucceed]_vars

(* ---- properties -------------------------------------------------------- *)

Records == 1 .. Len(clickReportData)

\* the records of the session started as tab t of url u in cycle c
RecordsOf(u, t, c) ==
  {i \in Records : /\ clickReportData[i].url = u
                   /\ clickReportData[i].tabNumber = t + 1
                   /\ clickReportData[i].sessionStartTime = c}

Slots == Urls \X Tabs

\* the lines of data.csv that are data rows, and those that are header rows
DataRows == {k \in 1 .. Len(dataCsv.rows) : dataCsv.rows[k].kind = "row"}
HeaderRows == {k \in 1 .. Len(dataCsv.rows) : dataCsv.rows[k].kind = "header"}

Terminated == orch.pc \in {"finalReport", "done"}

\* C1: when N workers have called incrementClickCounter, in any interleaving
\* of their awaits, globalClickCounter is N and the clickNumbers of the N
\* records are exactly 1..N, without duplicate or gap; the number a worker
\* holds for its own record is the number of its record in the buffer, and no
\* two workers hold the same number.
C1_SequenceNumbersExact ==
  /\ Len(clickReportData) = globalClickCounter
  /\ {clickReportData[i].clickNumber : i \in Records} = 1 .. globalClickCounter
  /\ \A i, j \in Records :
       i # j => clickReportData[i].clickNumber # clickReportData[j].clickNumber
  /\ \A a \in Slots :
       LET w == workers[a[1]][a[2]] IN
       w.clickNumber # 0 =>
         /\ w.clickNumber \in 1 .. globalClickCounter
         /\ \E i \in RecordsOf(a[1], a[2], orch.cycleCount) :
              clickReportData[i].clickNumber = w.clickNumber
  /\ \A a, b \in Slots :
       (a # b /\ workers[a[1]][a[2]].clickNumber # 0)
         => workers[a[1]][a[2]].clickNumber # workers[b[1]][b[2]].clickNumber

\* C1 witness: two workers have incremented the counter and both still await
\* their appendFile
C1_Witness ==
  /\ globalClickCounter = 2
  /\ \E a, b \in Slots :
       /\ a # b
       /\ workers[a[1]][a[2]].pc = "append"
       /\ workers[b[1]][b[2]].pc = "append"

C3_DispatchOnlyBelowBudget ==
  [][(cfg.variant = "bounded" /\ dispatchLog' # dispatchLog)
       => globalClickCounter < cfg.MAX_CLICKS]_vars

\* C3 witness: the budget is reached and an openEnhancedTabs call has returned
\* with a tab it never started
C3_Witness ==
  \E u \in Urls :
    /\ tasks[u].pc = "returned"
    /\ globalClickCounter >= cfg.MAX_CLICKS
    /\ \E t \in Tabs : ~InSeq(<<orch.cycleCount, u, t>>, dispatchLog)

\* C4 as claimed: when the campaign has terminated the counter lies in
\* MAX_CLICKS .. MAX_CLICKS + C - 1, C the concurrency of openEnhancedTabs.
C4_FinalCountWithinC ==
  Terminated =>
    globalClickCounter \in
      cfg.MAX_CLICKS .. (cfg.MAX_CLICKS + cfg.concurrentTabsPerUrl - 1)

\* C4 amended: the urls of a cycle run in parallel, each with its own limit
\* C, so with U urls the final counter lies in MAX_CLICKS .. MAX_CLICKS + U*C - 1.
C4_FinalCountWithinUC ==
  Terminated =>
    globalClickCounter \in
      cfg.MAX_CLICKS .. (cfg.MAX_CLICKS + cfg.urls * cfg.concurrentTabsPerUrl - 1)

\* C4 witness: a campaign over two urls ended at the upper end of the range
C4_Witness ==
  /\ orch.pc = "done"
  /\ cfg.urls = 2
  /\ globalClickCounter = cfg.MAX_CLICKS + cfg.urls * cfg.concurrentTabsPerUrl - 1

\* C5 as claimed: the workers in flight, over all urls, are at most C.
C5_InFlightAtMostC == InFlightCount <= cfg.concurrentTabsPerUrl

\* C5 amended: C is the limit of one url: at most C workers of one url are
\* in flight, and over the U urls of a cycle at most U*C.
C5_InFlightAtMostCPerUrl ==
  /\ \A u \in Urls :
       Cardinality({t \in Tabs : InFlight(workers[u][t])}) <= cfg.concurrentTabsPerUrl
  /\ InFlightCount <= cfg.urls * cfg.concurrentTabsPerUrl

\* C5 witness: two urls, two workers in flight with concurrency 1
C5_Witness ==
  /\ cfg.urls = 2 /\ cfg.concurrentTabsPerUrl = 1
  /\ InFlightCount = 2

\* C6 as claimed: three urls, C = 1, budget 2, all sessions succeed: exactly
\* two records, the first of URL[0], the second of URL[1], and no worker is
\* ever started for URL[2].
C6_TwoRecordsInListOrder ==
  /\ \A k \in 1 .. Len(dispatchLog) : dispatchLog[k][2] # 3
  /\ Terminated =>
       /\ Len(clickReportData) = 2
       /\ clickReportData[1].url = 1
       /\ clickReportData[2].url = 2

\* C6 amended: the first cycle starts a worker for each of the three urls, in
\* list order, before any session ends; the campaign ends with at least 3 and
\* at most 4 records (exactly 3 with one tab per url), at least one for every url.
C6_AllThreeUrlsStarted ==
  /\ orch.pc # "init" =>
       /\ Len(dispatchLog) >= 3
       /\ \A k \in 1 .. 3 : dispatchLog[k] = <<1, k, 0>>
  /\ Terminated =>
       /\ Len(clickReportData) \in 3 .. 4
       /\ cfg.numberOfTabsPerUrl = 1 => Len(clickReportData) = 3
       /\ \A u \in Urls : \E i \in Records : clickReportData[i].url = u

\* C6 witness: the scenario has ended with four records
C6_Witness ==
  /\ orch.pc = "done"
  /\ cfg.urls = 3 /\ cfg.concurrentTabsPerUrl = 1 /\ cfg.MAX_CLICKS = 2
  /\ faults = 0
  /\ Len(clickReportData) = 4

\* C7 as claimed: between any two steps the data rows of data.csv are as many
\* as the records of clickReportData.
C7_RowsEqualRecords == Cardinality(DataRows) = Len(clickReportData)

\* C7 amended: the data rows are never more than the records and never get
\* fewer; they are the records less the appends still awaited and the appends
\* that failed.
C7_RowsTrailRecords ==
  /\ [](Cardinality(DataRows) =
          Len(clickReportData)
          - Cardinality({a \in Slots : workers[a[1]][a[2]].pc = "append"})
          - csvErrors)
  /\ [][Len(dataCsv'.rows) >= Len(dataCsv.rows)
        /\ SubSeq(dataCsv'.rows, 1, Len(dataCsv.rows)) = dataCsv.rows]_vars

\* C7 witness: a row is in the file, one append has failed and another is awaited
C7_Witness ==
  /\ Cardinality(DataRows) >= 1
  /\ csvErrors >= 1
  /\ \E a \in Slots : workers[a[1]][a[2]].pc = "append"

\* C8: data.csv, once it exists, holds exactly one header row, and it is the
\* first row.
C8_OneHeaderFirst ==
  dataCsv.exists => HeaderRows = {1}

\* C9: no generateCSVReport call writes a file name an earlier call has written.
C9_ReportNamesFresh ==
  \A i, j \in 1 .. Len(reports) : i # j => reports[i].name # reports[j].name

\* C10: no failure inside a worker leaves it: whatever step failed, the
\* worker's promise is fulfilled, never rejected, and the campaign goes on: the
\* bounded campaign ends only with the budget reached, the unbounded campaign
\* never.
C10_WorkerNeverRejects ==
  /\ \A a \in Slots :
       LET w == workers[a[1]][a[2]] IN
       /\ w.settled # "rejected"
       /\ w.pc = "settled" => w.settled = "fulfilled"
  /\ \A u \in Urls : tasks[u].pc # "rejected"
  /\ orch.pc # "crashed"
  /\ Terminated => globalClickCounter >= cfg.MAX_CLICKS

\* C10 witness: the first session of a url failed and the scheduler has
\* started the next tab of that url
C10_Witness ==
  \E u \in Urls :
    /\ faults >= 1
    /\ globalClickCounter = 0
    /\ tasks[u].i = 1
    /\ workers[u][1].pc = "session"

\* C11: every browser and page a worker has acquired is closed when the
\* worker settles, whatever step failed; so with no worker in flight no
\* browser is open.
C11_HandlesClosedAtSettle ==
  /\ \A a \in Slots :
       LET w == workers[a[1]][a[2]] IN
       w.pc = "settled" =>
         /\ w.browser \in {"null", "closed"}
         /\ w.page \in {"null", "closed"} \/ w.browser = "closed"
  /\ InFlightCount = 0 => openBrowsers = 0

\* C12: in the unbounded campaign, between sessions, the 30 second breaks
\* taken are globalClickCounter \div 10 and the snapshots requested are
\* globalClickCounter \div 25, also when a telemetry write has failed; while a
\* break is taken no other worker runs.
C12_BreaksAndSnapshotsOnSchedule ==
  cfg.variant = "unbounded" =>
    /\ InFlightCount = 0 =>
         /\ pacing.breaks = globalClickCounter \div BreakInterval
         /\ pacing.snapshots = globalClickCounter \div ReportInterval
    /\ \A a \in Slots : workers[a[1]][a[2]].pc = "break" => InFlightCount = 1

Dispatches == 1 .. Len(dispatchLog)

\* C13 as claimed: in the dispatches of one cycle, read in time order, the list
\* positions of the urls never decrease, in both campaigns.
C13_PositionsNonDecreasing ==
  \A j, k \in Dispatches :
    (j < k /\ dispatchLog[j][1] = dispatchLog[k][1]) => dispatchLog[j][2] <= dispatchLog[k][2]

\* C13 amended: the unbounded campaign dispatches in list order (each
\* dispatch against the one before it, which gives every pair).  The bounded
\* campaign starts the urls of a cycle in list order (a dispatch of a url
\* comes after a dispatch of every earlier url in the same cycle, so the
\* first dispatches of the urls are in list order), within one url the
\* tab indices increase, and cycles follow each other; the later batches of
\* different urls come in any order.
C13_FirstDispatchesInListOrder ==
  /\ \A k \in 2 .. Len(dispatchLog) : dispatchLog[k - 1][1] <= dispatchLog[k][1]
  /\ cfg.variant = "unbounded" =>
       \A k \in 2 .. Len(dispatchLog) :
         dispatchLog[k - 1][1] = dispatchLog[k][1] =>
           /\ dispatchLog[k - 1][2] <= dispatchLog[k][2]
           /\ dispatchLog[k - 1][2] = dispatchLog[k][2] => dispatchLog[k - 1][3] < dispatchLog[k][3]
  /\ cfg.variant = "bounded" =>
       \A k \in Dispatches : \A j \in 1 .. (k - 1) :
         (dispatchLog[j][1] = dispatchLog[k][1] /\ dispatchLog[j][2] = dispatchLog[k][2])
           => dispatchLog[j][3] < dispatchLog[k][3]
  /\ \A k \in Dispatches : \A u \in 1 .. (dispatchLog[k][2] - 1) :
       \E j \in 1 .. (k - 1) :
         dispatchLog[j][1] = dispatchLog[k][1] /\ dispatchLog[j][2] = u

\* C13 witness: in one cycle of the bounded campaign the second tab of url 1
\* is started after the first tab of url 2
C13_Witness ==
  /\ cfg.variant = "bounded"
  /\ Len(dispatchLog) >= 3
  /\ dispatchLog[1] = <<1, 1, 0>>
  /\ dispatchLog[2] = <<1, 2, 0>>
  /\ dispatchLog[3] = <<1, 1, 1>>

\* C14 as claimed: every dispatch but those that open the campaign comes
\* after a random delay that has elapsed since the batch before it settled,
\* in both campaigns, whether the sessions of that batch succeeded or failed.
C14_RandomDelayBeforeEveryDispatch ==
  \A k \in 1 .. Len(pacing.log) : pacing.log[k] \in {"first", "random"}

\* C14 amended: in the bounded campaign every dispatch after the first cycle's
\* opening comes after the random delay of openEnhancedTabs.  In the unbounded
\* campaign the random delay is part of a session that runs to its end: a
\* session that failed before its record is followed by the next dispatch
\* with no random delay (none inside a batch, the fixed 2000 ms between
\* batches), and a dispatch lacks the random delay only after some awaited
\* operation has failed.
C14_RandomDelayUnlessSessionFailed ==
  /\ Len(pacing.log) = Len(dispatchLog)
  /\ \A k \in Dispatches :
       /\ pacing.log[k] = "first" <=> (k = 1 \/ (cfg.variant = "bounded" /\ dispatchLog[k][1] = 1
                                                  /\ k <= cfg.urls * cfg.concurrentTabsPerUrl
                                                  /\ \A j \in 1 .. k : pacing.log[j] = "first"))
       /\ cfg.variant = "bounded" => pacing.log[k] \in {"first", "random"}
       /\ pacing.log[k] \in {"none", "fixed"} => faults >= 1
       /\ (cfg.variant = "unbounded" /\ k > 1
             /\ RecordsOf(dispatchLog[k-1][2], dispatchLog[k-1][3], dispatchLog[k-1][1]) = {})
            => pacing.log[k] \in {"none", "fixed"}

\* C14 witness: the unbounded campaign has dispatched one worker right after
\* a failed session and another one after a session that ran to its end
C14_Witness ==
  /\ cfg.variant = "unbounded"
  /\ \E j, k \in Dispatches : pacing.log[j] = "none" /\ pacing.log[k] = "random"

\* C15: a failed telemetry write, of the append to data.csv or of a snapshot,
\* is logged and changes nothing else: the record stays in clickReportData,
\* globalClickCounter keeps its value, and the worker that made the record is
\* counted as completed and runs its remaining steps (in the unbounded
\* campaign: completedClicks++ and the random delay) before it settles.
C15_WriteErrorsChangeNothingElse ==
  /\ Len(clickReportData) = globalClickCounter
  /\ \A a \in Slots :
       LET w == workers[a[1]][a[2]] IN
       (w.pc = "settled" /\ w.clickNumber # 0) =>
         /\ \E i \in Records : clickReportData[i].clickNumber = w.clickNumber
         /\ cfg.variant = "unbounded" =>
              /\ tasks[a[1]].completedTabs = 1
              /\ pacing.last[a[1]] = "random"

\* C16: the scheduler waits for the whole batch: it goes on after its await,
\* and a worker is dispatched for a url, only when no worker of that url is
\* in flight, also when a worker of the batch has already failed; a new cycle
\* begins only when no worker at all is in flight.
C16_WaitsForWholeBatch ==
  [][/\ \A u \in Urls :
          (tasks[u].pc = "awaitBatch" /\ tasks'[u].pc # "awaitBatch")
            => \A t \in Tabs : ~InFlight(workers[u][t])
     /\ \A k \in (Len(dispatchLog) + 1) .. Len(dispatchLog') :
          \A t \in Tabs : ~InFlight(workers[dispatchLog'[k][2]][t])
     /\ orch'.cycleCount # orch.cycleCount => InFlightCount = 0]_vars

\* C16 witness: of a batch of two workers one has settled after a failed
\* navigation, the other is still in its session, and the scheduler waits
C16_Witness ==
  \E u \in Urls :
    /\ tasks[u].pc = "awaitBatch"
    /\ Len(tasks[u].batch) = 2
    /\ workers[u][0].pc = "settled" /\ workers[u][0].failedAt = "goto"
    /\ workers[u][1].pc = "session"

\* C17: a worker in flight is never cancelled: it leaves the workers in flight
\* only by settling; a session that ends well increments the counter and
\* appends its record whatever the counter has reached meanwhile; and the
\* campaign is not over while a worker is in flight.
C17_InFlightWorkersRunToTheEnd ==
  /\ [](Terminated => InFlightCount = 0)
  /\ [][\A a \in Slots :
          LET w == workers[a[1]][a[2]]
              x == workers'[a[1]][a[2]]
          IN /\ (InFlight(w) /\ ~InFlight(x)) => x.pc = "settled"
             /\ (w.pc = "session" /\ x.pc # "session") =>
                  \/ x.failedAt \in SessionFailures
                  \/ /\ x.pc = "append"
                     /\ globalClickCounter' = globalClickCounter + 1
                     /\ x.clickNumber = globalClickCounter'
                     /\ clickReportData' =
                          Append(clickReportData,
                                 RecordWithMeta(globalClickCounter',
                                                ClickData(a[1], a[2], orch.cycleCount)))]_vars

\* C17 witness: a worker started below the budget has ended its session with
\* the budget already reached, and holds a number above MAX_CLICKS
C17_Witness ==
  /\ cfg.variant = "bounded"
  /\ \E a \in Slots :
       /\ workers[a[1]][a[2]].pc = "append"
       /\ workers[a[1]][a[2]].clickNumber > cfg.MAX_CLICKS
       /\ clickReportData[Len(clickReportData)].url = a[1]

\* C18: when every worker settles and sessions succeed again and again, the
\* bounded campaign leaves its cycle loop; from then on globalClickCounter is
\* at least MAX_CLICKS and no worker is in flight.
C18_BoundedCampaignTerminates ==
  /\ (cfg.variant = "bounded") ~> Terminated
  /\ [](Terminated => (globalClickCounter >= cfg.MAX_CLICKS /\ InFlightCount = 0))
  /\ [][Terminated => Terminated']_vars

\* C18 witness: the campaign has left its loop after a cycle in which a session
\* failed and a further cycle
C18_Witness ==
  /\ cfg.variant = "bounded"
  /\ orch.pc = "done"
  /\ orch.cycleCount >= 2
  /\ faults >= 1
  /\ globalClickCounter >= cfg.MAX_CLICKS

\* C19: the unbounded campaign never stops by itself: it never leaves its
\* while (true) loop, and whatever sessions and telemetry writes fail it
\* dispatches worker after worker, as far as the MaxSessions sessions followed.
C19_UnboundedCampaignGoesOn ==
  /\ [](cfg.variant = "unbounded" => (~Terminated /\ orch.pc # "crashed"))
  /\ (cfg.variant = "unbounded") ~> (Len(dispatchLog) = MaxSessions)

\* C19 witness: after a failed session and a failed telemetry write the
\* campaign has dispatched a further worker
C19_Witness ==
  /\ cfg.variant = "unbounded"
  /\ faults >= 1
  /\ csvErrors >= 1
  /\ Len(dispatchLog) >= 3
  /\ \E a \in Slots : workers[a[1]][a[2]].pc = "session"

\* C20: a snapshot holds the whole of clickReportData as it is when
\* generateCSVReport is called, one row per record in the order of the
\* records; the snapshot written when the bounded campaign ends holds a row
\* for every record of the campaign, numbers 1 .. globalClickCounter.
C20_SnapshotHoldsAllRecords ==
  /\ [](\A i \in 1 .. Len(reports) :
          /\ Len(reports[i].content) \in 1 .. Len(clickReportData)
          /\ \A k \in 1 .. Len(reports[i].content) :
               reports[i].content[k] = clickReportData[k].clickNumber)
  /\ [][\A a \in Slots :
          (workers[a[1]][a[2]].pc # "report" /\ workers'[a[1]][a[2]].pc = "report")
            => /\ Len(workers'[a[1]][a[2]].repContent) = Len(clickReportData')
               /\ \A k \in 1 .. Len(clickReportData') :
                    workers'[a[1]][a[2]].repContent[k] = clickReportData'[k].clickNumber]_vars
  /\ [](Terminated =>
          /\ Len(orch.repContent) = globalClickCounter
          /\ \A k \in 1 .. globalClickCounter : orch.repContent[k] = k)
  /\ [][(orch.pc = "finalReport" /\ Len(reports') > Len(reports))
          => reports'[Len(reports')].content = orch.repContent]_vars

\* C20 witness: the campaign has ended; the snapshot of the worker that
\* reached the budget has fewer rows than the final one, which has them all
C20_Witness ==
  /\ orch.pc = "done"
  /\ Len(reports) >= 2
  /\ Len(reports[1].content) < globalClickCounter
  /\ Len(reports[Len(reports)].content) = globalClickCounter
  /\ reports[Len(reports)].content = orch.repContent

\* C21: for every city of the IP table the connection returned by
\* getRandomConnectionType(getLocationTier(city)) is never undefined, has a type
\* its tier permits and a downlink of at least the tier's floor: tier1 one of
\* fiber, cable, 5g, 4g, wifi with at least 5 Mbps; tier2 one of fiber, cable,
\* 4g, 3g, wifi, dsl with at least 2 Mbps; tier3 one of 4g, 3g, 2g, wifi, dsl.
C21_ConnectionFitsTier ==
  profile.kind = "connection" =>
    /\ profile.type # "undefined"
    /\ profile.city \in tier1Cities =>
         /\ profile.type \in {"fiber", "cable", "5g", "4g", "wifi"}
         /\ profile.downlink >= 500
    /\ profile.city \in tier2Cities \ tier1Cities =>
         /\ profile.type \in {"fiber", "cable", "4g", "3g", "wifi", "dsl"}
         /\ profile.downlink >= 200
    /\ profile.city \notin tier1Cities \cup tier2Cities =>
         profile.type \in {"4g", "3g", "2g", "wifi", "dsl"}

\* C21 witness: Mumbai has drawn the slowest connection of tier1, 5 Mbps
C21_Witness ==
  /\ profile.kind = "connection"
  /\ profile.city = "Mumbai"
  /\ profile.downlink = 500

Distance(a, b) == IF a >= b THEN a - b ELSE b - a

\* C22: for every record of the IP table, the latitude and the longitude of
\* generateIndianIPData are each within 0.005 degrees of the coordinates of
\* the record's own city.
C22_CoordinatesNearOwnCity ==
  profile.kind = "ipData" =>
    /\ profile.city \in DOMAIN indianCoordinates
    /\ Distance(profile.latitude, indianCoordinates[profile.city].lat) <= 5000
    /\ Distance(profile.longitude, indianCoordinates[profile.city].lng) <= 5000

\* C23: in every reachable state clickReportData.length equals
\* globalClickCounter and the record at buffer position i (1-based) has
\* clickNumber i; a step changes the counter by +1 or not at all.
C23_BufferMirrorsCounter ==
  /\ Len(clickReportData) = globalClickCounter
  /\ \A i \in Records : clickReportData[i].clickNumber = i
  /\ [][/\ Len(clickReportData') = globalClickCounter'
        /\ \A i \in 1 .. Len(clickReportData') : clickReportData'[i].clickNumber = i
        /\ globalClickCounter' \in {globalClickCounter, globalClickCounter + 1}]_vars

\* C23 witness: two sessions of different urls have incremented the counter
\* one after the other while the first still awaits its appendFile
C23_Witness ==
  /\ globalClickCounter = 2
  /\ Len(clickReportData) = 2
  /\ clickReportData[1].url # clickReportData[2].url
  /\ \E a \in Slots : workers[a[1]][a[2]].pc = "append" /\ workers[a[1]][a[2]].clickNumber = 1

\* C24: a record is never changed or removed once it is in clickReportData,
\* and only incrementClickCounter writes the counter: a step that changes
\* globalClickCounter or clickReportData is the start of an
\* incrementClickCounter call by a worker whose session has ended; the steps of
\* updateCSVFile, of generateCSVReport and of the scheduler loops leave the
\* counter and every record of the buffer as they were.
C24_RecordsAndCounterFramed ==
  [][/\ Len(clickReportData') >= Len(clickReportData)
     /\ \A i \in Records : clickReportData'[i] = clickReportData[i]
     /\ (globalClickCounter' # globalClickCounter \/ clickReportData' # clickReportData)
          => \E a \in Slots :
               /\ workers[a[1]][a[2]].pc = "session"
               /\ workers'[a[1]][a[2]].pc = "append"
               /\ workers'[a[1]][a[2]].clickNumber = globalClickCounter'
               /\ tasks' = tasks /\ orch' = orch
               /\ dataCsv' = dataCsv /\ reports' = reports]_vars

\* C24 witness: with two records in the buffer updateCSVFile has written
\* rows, generateCSVReport has written a report and the cycle loop has gone
\* into a second cycle
C24_Witness ==
  /\ Len(clickReportData) >= 2
  /\ Len(dataCsv.rows) >= 2
  /\ Len(reports) >= 1
  /\ orch.cycleCount >= 2

\* C25: within one openEnhancedTabs call of the bounded campaign
\* activeConnections never exceeds maxConnections and counts no more than the
\* workers of the call that are in flight; the call does not leave its
\* dispatch loop or return while a worker it dispatched is in flight, and
\* activeConnections is 0 when it returns, whatever numberOfTabs and the
\* concurrency are.
C25_ConnectionsWithinLimit ==
  cfg.variant = "bounded" =>
    \A u \in Urls :
      /\ tasks[u].activeConnections \in 0 .. cfg.concurrentTabsPerUrl
      /\ tasks[u].activeConnections
           <= Cardinality({t \in Tabs : InFlight(workers[u][t])})
      /\ tasks[u].pc \in {"returned", "delay", "skipped", "idle"} =>
           /\ tasks[u].activeConnections = 0
           /\ \A t \in Tabs : ~InFlight(workers[u][t])

\* C25 witness: a call with one tab and concurrency 2 (one is not a multiple
\* of two) has returned after its only worker completed
C25_Witness ==
  /\ cfg.variant = "bounded"
  /\ cfg.numberOfTabsPerUrl = 1 /\ cfg.concurrentTabsPerUrl = 2
  /\ tasks[1].pc = "returned"
  /\ tasks[1].completedTabs = 1
  /\ tasks[1].activeConnections = 0

\* C26: in the bounded campaign over U urls processed concurrently, each with
\* concurrency C, at most U*C workers are in flight at any moment, and the
\* counter, which never decreases, is at most MAX_CLICKS + U*C - 1 at every
\* moment and so at the end.
C26_OvershootBelowUC ==
  cfg.variant = "bounded" =>
    /\ InFlightCount <= cfg.urls * cfg.concurrentTabsPerUrl
    /\ globalClickCounter <= cfg.MAX_CLICKS + cfg.urls * cfg.concurrentTabsPerUrl - 1

\* C26 witness: two urls with concurrency 1 and a budget of 1: both workers
\* were in flight when the first reached the budget, and the campaign ended
\* with the counter at MAX_CLICKS + 1 and a snapshot written
C26_Witness ==
  /\ cfg.variant = "bounded"
  /\ Terminated
  /\ cfg.urls = 2 /\ cfg.concurrentTabsPerUrl = 1 /\ cfg.MAX_CLICKS = 1
  /\ globalClickCounter = 2
  /\ Len(reports) >= 1

\* C27: the completedTabs an openEnhancedTabs call returns is the number of
\* records its own workers appended to clickReportData, so the completedTabs
\* of the calls of a cycle add up to the records of that cycle, and over the
\* campaign to the final globalClickCounter.
C27_CompletedTabsCountRecords ==
  (cfg.variant = "bounded" /\ orch.pc = "awaitCycle") =>
    \A u \in Urls :
      tasks[u].pc = "returned" =>
        tasks[u].completedTabs =
          Cardinality({i \in Records : /\ clickReportData[i].url = u
                                       /\ clickReportData[i].sessionStartTime = orch.cycleCount})

\* C28: in the bounded campaign incrementClickCounter writes the shutdown
\* snapshot and returns false for a worker if and only if the worker's own
\* record has clickNumber >= MAX_CLICKS: a worker whose record has a smaller
\* clickNumber never gets to the snapshot, and a worker whose record has
\* clickNumber >= MAX_CLICKS does not complete its tab.
C28_SnapshotOnlyAtOwnBudget ==
  cfg.variant = "bounded" =>
    \A a \in Slots :
      LET w == workers[a[1]][a[2]] IN
      /\ w.pc = "report" => w.clickNumber >= cfg.MAX_CLICKS
      /\ (w.clickNumber >= cfg.MAX_CLICKS /\ w.pc \in {"closing", "settled"})
           => w.failedAt \in {"MAX_CLICKS_REACHED", "report"}

\* C29: the data rows of data.csv are in strictly increasing clickNumber
\* order, however the appendFile operations of concurrently completing
\* workers overlap.
C29_RowsInClickOrder ==
  \A j, k \in DataRows :
    j < k => dataCsv.rows[j].clickNumber < dataCsv.rows[k].clickNumber

Attempts == interaction.attempts
Matching ==
  {q \in 1 .. FinalPosition(interaction.variant) :
     Len(interaction.page[GroupAt(interaction.variant, q)]) > 0}
AttemptedBefore(q, j) == \E i \in 1 .. (j - 1) : Attempts[i].position = q

C32_SoftFailuresStillRecord ==
  /\ \A a \in Slots :
       workers[a[1]][a[2]].pc = "append" =>
         /\ workers[a[1]][a[2]].outcome \in SessionOutcomes
         /\ Cardinality(RecordsOf(a[1], a[2], orch.cycleCount)) = 1
  /\ [][\A a \in Slots :
          (/\ workers[a[1]][a[2]].pc = "session"
           /\ workers'[a[1]][a[2]].pc # "session"
           /\ workers'[a[1]][a[2]].failedAt \notin SessionFailures)
          => /\ globalClickCounter' = globalClickCounter + 1
             /\ Len(clickReportData') = Len(clickReportData) + 1
             /\ clickReportData'[Len(clickReportData')] =
                  RecordWithMeta(globalClickCounter', ClickData(a[1], a[2], orch.cycleCount))
             /\ workers'[a[1]][a[2]].clickNumber = globalClickCounter'
             /\ workers'[a[1]][a[2]].outcome \in SessionOutcomes
             /\ workers'[a[1]][a[2]].delay = "fallback"
                  <=> workers'[a[1]][a[2]].outcome \in {"notFound", "interactionError"}]_vars

\* C32 witness: one worker found nothing to click, another had its
\* interaction block throw; both took the fallback delay and each has
\* appended its record
C32_Witness ==
  \E a, b \in Slots :
    /\ workers[a[1]][a[2]].pc = "append" /\ workers[b[1]][b[2]].pc = "append"
    /\ workers[a[1]][a[2]].outcome = "notFound"
    /\ workers[b[1]][b[2]].outcome = "interactionError"
    /\ workers[a[1]][a[2]].delay = "fallback" /\ workers[b[1]][b[2]].delay = "fallback"
    /\ Cardinality(RecordsOf(a[1], a[2], orch.cycleCount)) = 1
    /\ Cardinality(RecordsOf(b[1], b[2], orch.cycleCount)) = 1

\* C33: getLocationTier returns 'tier1' exactly for the ten names of the
\* tier1 list, 'tier2' exactly for the names of the tier2 list and 'tier3' for
\* every other name, the lists having no name in common; it never returns
\* 'rural', so the connection of a generated profile is one the tier1, tier2
\* or tier3 filter lets through, never one only the rural filter would give.
C33_TierByListNeverRural ==
  /\ profile.kind = "tier" =>
       /\ profile.type = "tier1" <=> profile.city \in tier1Cities
       /\ profile.type = "tier2" <=> profile.city \in tier2Cities
       /\ profile.type = "tier3" <=> profile.city \notin tier1Cities \cup tier2Cities
       /\ profile.type \in {"tier1", "tier2", "tier3"}
  /\ profile.kind = "connection" =>
       /\ getLocationTier(profile.city) # "rural"
       /\ profile.type # "satellite"
       /\ \E tier \in {"tier1", "tier2", "tier3"} :
            \E i \in 1 .. Len(filteredConnections(tier)) :
              /\ filteredConnections(tier)[i].type = profile.type
              /\ filteredConnections(tier)[i].downlink = profile.downlink

\* C33 witness: a name of no list, written like a metro city but in lower
\* case, is put in tier3
C33_Witness ==
  /\ profile.kind = "tier"
  /\ profile.city = "mumbai"
  /\ profile.type = "tier3"

\* the clicks logged by the demonstration
Clicks == 1 .. Len(vm.log)

\* C34: in the demonstration the identity changes exactly every 5 clicks: for
\* every click n of 1..12 currentVmId is ceil(n/5), a new identity is
\* generated exactly at the clicks 1, 6 and 11, and the run ends after 12
\* clicks with 2 rotations and 3 distinct VM ids.
C34_IdentityEveryFiveClicks ==
  /\ Len(vm.log) = vm.click /\ vm.click <= 12
  /\ \A n \in Clicks :
       /\ vm.log[n].click = n
       /\ vm.log[n].currentVmId = (n + 4) \div 5
       /\ vm.log[n].identity # NoIdentity <=> n \in {1, 6, 11}
       /\ vm.log[n].rotated <=> n \in {6, 11}
  /\ vm.click >= 1 => vm.currentVmId = (vm.click + 4) \div 5
  /\ vm.click = 12 =>
       /\ Cardinality({n \in Clicks : vm.log[n].rotated}) = 2
       /\ Cardinality({vm.log[n].currentVmId : n \in Clicks}) = 3

\* C34 witness: the loop has ended on VM 3, and the three identities
\* generated at the clicks 1, 6 and 11 differ from one another
C34_Witness ==
  /\ vm.click = 12
  /\ vm.currentVmId = 3
  /\ vm.log[1].identity # vm.log[6].identity
  /\ vm.log[6].identity # vm.log[11].identity
  /\ vm.log[1].identity # vm.log[11].identity

C36_OctetAndUserIdInRange ==
  /\ profile.kind = "lastOctet" => profile.number \in 1 .. 254
  /\ profile.kind = "userId" => profile.number \in 1000 .. 9999

\* C36 witness: a draw just below 1 gives the largest octet, 254
C36_Witness ==
  /\ profile.kind = "lastOctet"
  /\ profile.number = 254

\* C37: the record number addClickRecord logs when the append to data.csv is
\* over ('Record N added to data.csv') is the clickNumber of the record that
\* call appended, in every interleaving of concurrent completions.
C37_LoggedNumberIsOwnRecord ==
  \A a \in Slots :
    workers[a[1]][a[2]].logged # 0
      => workers[a[1]][a[2]].logged = workers[a[1]][a[2]].clickNumber

====
